---- MODULE Spec2Model ----
(***************************************************************************)
(* The statistical analysis pipeline of the clustering app:                *)
(*   src/src/utils/analysis.ts        (client side, performAnalysis)       *)
(*   src/src/app/api/analyze/route.ts (server side, POST)                  *)
(*                                                                         *)
(* Numbers.  The embedding values of the model are integers.  Everything   *)
(* the code derives from them is kept exact:                               *)
(*   - a rational is a pair <<n, d>> in lowest terms with d > 0;           *)
(*   - a t statistic is sgn * sqrt(sq) with sq a rational (d = 0 stands    *)
(*     for Infinity), or NaN;                                              *)
(*   - a p-value is 2 * tCDF(-sqrt(t2), df) and is kept as its t2: the     *)
(*     p-value is 1 exactly when t2 = 0, is 0 exactly when t2 = Infinity   *)
(*     and decreases strictly in t2 in between (df fixed), or it is NaN;   *)
(*   - a standardized value is num / sqrt(den2), num and den2 rationals.   *)
(* Dimension indices, row indices and cluster ids are 0-based as in the    *)
(* code; TLA+ sequences are 1-based, so row r of the code is data[r + 1].  *)
(*                                                                         *)
(* Specifications:                                                         *)
(*   SpecRank     selectDiscriminativeDimensions called on its own         *)
(*   SpecCluster  performClustering called on its own                      *)
(*   SpecBlobs    performClustering on one column of two groups, K = 2     *)
(*   SpecTwoRuns  performClustering called twice on the same arguments     *)
(*   Spec         performAnalysis and POST /api/analyze                    *)
(*   SpecRerun    performAnalysis or POST run twice on the same input      *)
(*   SpecProject  performPCA (of analysis.ts, of route.ts) called on its   *)
(*                own                                                      *)
(*   SpecRagged   performAnalysis and POST on rows of different lengths    *)
(*   SpecEmbed    processData of page.tsx up to the embeddings, and POST   *)
(*                /api/embeddings (src/src/app/api/embeddings/route.ts)    *)
(***************************************************************************)
EXTENDS Integers, Sequences, FiniteSets, TLC

\* Bounds of the model.
MaxRows == 4
MaxClusterRows == 5
MaxDims == 2
MaxClusters == 2

VARIABLES
    call,               \* the function that was called
    embeddings,         \* number[][]: a sequence of rows
    labels,             \* { [key: string]: string }: a function on its keys
    identifiers,        \* string[]
    config,             \* [numDimensions, numClusters]
    pc,                 \* position in the called function
    selectedDimensions, \* const selectedDimensions
    dimensionStats,     \* const dimensionStats
    rankTrace,          \* locals of selectDiscriminativeDimensions: the
                        \* sorted array before the slice, every testResult
    standardized,       \* means, stds and standardizedMatrix
    loop,               \* the loop state of kmeans: centers, clusterID,
                        \* converged, stepNumber (and the rows that
                        \* random() drew as the first centers)
    clusteringResult,   \* what performClustering returned
    pcaResult,          \* what performPCA returned
    results,            \* the results object
    status,             \* the HTTP status of the response of POST
    error,              \* the message of the Error thrown or reported
    firstRun,           \* the outcome of the previous run on this input
    generation,         \* processData and POST /api/embeddings: the rows of
                        \* the CSV, the requests sent, the loop over batches
    home                \* the state of the component Home of page.tsx, the
                        \* requests of processData that are in flight

inputs == <<call, embeddings, labels, identifiers, config>>
ranked == <<selectedDimensions, dimensionStats, rankTrace>>
clustered == <<standardized, loop, clusteringResult>>
outcome == <<pcaResult, results, status, error>>
vars == <<inputs, pc, ranked, clustered, outcome, firstRun, generation, home>>

----------------------------------------------------------------------------
\* Exact arithmetic

Abs(x) == IF x < 0 THEN -x ELSE x
Sgn(x) == IF x < 0 THEN -1 ELSE IF x > 0 THEN 1 ELSE 0
Min(a, b) == IF a < b THEN a ELSE b
Max(a, b) == IF a > b THEN a ELSE b

RECURSIVE Gcd(_, _)
Gcd(a, b) == IF b = 0 THEN a ELSE Gcd(b, a % b)

\* n / d in lowest terms; d = 0 is kept for Infinity (1/0) and NaN (0/0)
Rat(n, d) ==
    IF d = 0 THEN <<Sgn(n), 0>>
    ELSE LET g == Gcd(Abs(n), Abs(d))
             s == Sgn(d)
         IN  <<(s * n) \div g, (s * d) \div g>>

\* the arithmetic cancels common factors before it multiplies, which keeps
\* the intermediate products small
RAdd(a, b) ==
    LET g == Gcd(a[2], b[2])
    IN  Rat(a[1] * (b[2] \div g) + b[1] * (a[2] \div g), a[2] * (b[2] \div g))
RSub(a, b) == RAdd(a, <<-b[1], b[2]>>)
RMul(a, b) ==
    LET g == Gcd(Abs(a[1]), b[2])
        h == Gcd(Abs(b[1]), a[2])
    IN  Rat((a[1] \div g) * (b[1] \div h), (a[2] \div h) * (b[2] \div g))
RDiv(a, b) == RMul(a, <<Sgn(b[1]) * b[2], Abs(b[1])>>)
RLess(a, b) ==
    LET g == Gcd(a[2], b[2])
    IN  a[1] * (b[2] \div g) < b[1] * (a[2] \div g)
RInt(n) == <<n, 1>>

RECURSIVE SumSeq(_)
SumSeq(s) == IF s = <<>> THEN 0 ELSE Head(s) + SumSeq(Tail(s))

InSeq(x, s) == \E i \in 1..Len(s) : s[i] = x

\* the array with the entries f[1], f[2], ...; its entries are evaluated once,
\* when the array is built
Array(f) == f \o <<>>

----------------------------------------------------------------------------
\* JavaScript values

Undefined == "<undefined>"
NoError == "<none>"
Truthy(v) == v \notin {Undefined, ""}

\* labels[id]
Lookup(obj, key) == IF key \in DOMAIN obj THEN obj[key] ELSE Undefined

\* Array.prototype.slice(0, end)
\* (a faulty variant: slice(0, end - 1), one entry short)
Slice0OneShort(s, end) ==
    LET len == Len(s)
        final == IF end - 1 < 0 THEN Max(len + end - 1, 0) ELSE Min(end - 1, len)
    IN  SubSeq(s, 1, final)

Slice0(s, end) ==
    LET len == Len(s)
        final == IF end < 0 THEN Max(len + end, 0) ELSE Min(end, len)
    IN  SubSeq(s, 1, final)

\* statistics: sgn * sqrt(sq), or NaN
NaNStat == [nan |-> TRUE, sgn |-> 0, sq |-> <<0, 0>>]
ZeroStat == [nan |-> FALSE, sgn |-> 0, sq |-> <<0, 1>>]
MathAbs(s) == [s EXCEPT !.sgn = Abs(s.sgn)]

\* p-values, kept as the t2 they are the two-sided tail probability of
NaNP == [nan |-> TRUE, t2 |-> <<0, 0>>]
OneP == [nan |-> FALSE, t2 |-> <<0, 1>>]
ZeroP == [nan |-> FALSE, t2 |-> <<1, 0>>]
\* a < b on p-values: false when either is NaN; a smaller p is a larger t2
PLess(a, b) == ~a.nan /\ ~b.nan /\ a.t2[1] * b.t2[2] > b.t2[1] * a.t2[2]
\* 0 <= p <= 1
PInUnit(p) == ~p.nan /\ p.t2[1] >= 0 /\ p.t2[2] >= 0 /\ p.t2 # <<0, 0>>

----------------------------------------------------------------------------
\* @stdlib/stats-ttest, as called by performTTest: ttest(x, y, opts) with a
\* second array is the paired t-test of the differences x[i] - y[i] against
\* mean 0: it throws when the arrays differ in length; otherwise
\*   stat = mean(d) / sqrt(variance(d) / n),   pValue = 2 * tCDF(-|stat|, n-1)
\* so that stat^2 = (n-1) S^2 / (n Q - S^2) with S = sum d, Q = sum d^2.
ttest(x, y) ==
    IF Len(x) # Len(y) THEN [threw |-> TRUE, pValue |-> NaNP, statistic |-> NaNStat]
    ELSE
        LET n == Len(x)
            S == SumSeq([i \in 1..n |-> x[i] - y[i]])
            Q == SumSeq([i \in 1..n |-> (x[i] - y[i]) * (x[i] - y[i])])
            den == n * Q - S * S
        IN  IF den = 0 /\ (n - 1) * S * S = 0
            THEN [threw |-> FALSE, pValue |-> NaNP, statistic |-> NaNStat]
            ELSE [threw |-> FALSE,
                  pValue |-> [nan |-> FALSE, t2 |-> Rat((n - 1) * S * S, den)],
                  statistic |-> [nan |-> FALSE, sgn |-> Sgn(S),
                                 sq |-> Rat((n - 1) * S * S, den)]]

Placeholder == [pValue |-> OneP, statistic |-> ZeroStat]

\* (a faulty variant: only empty groups get the placeholder)
performTTestEmptyOnly(group1, group2) ==
    IF Len(group1) < 1 \/ Len(group2) < 1 THEN Placeholder
    ELSE LET result == ttest(group1, group2)
         IN  IF result.threw THEN Placeholder
             ELSE [pValue |-> result.pValue, statistic |-> result.statistic]

performTTest(group1, group2) ==
    IF Len(group1) < 2 \/ Len(group2) < 2 THEN Placeholder
    ELSE LET result == ttest(group1, group2)
         IN  IF result.threw THEN Placeholder
             ELSE [pValue |-> result.pValue, statistic |-> result.statistic]

----------------------------------------------------------------------------
\* selectDiscriminativeDimensions

\* Object.keys(labeledGroups) after the first k identifiers: the labels in
\* the order in which they first occur
\* (a faulty variant: a key per labelled row, the labels are not grouped)
RECURSIVE groupKeysPerRow(_, _, _)
groupKeysPerRow(ids, lab, k) ==
    IF k = 0 THEN <<>>
    ELSE LET prev == groupKeysPerRow(ids, lab, k - 1)
             label == Lookup(lab, ids[k])
         IN  IF Truthy(label) THEN Append(prev, label) ELSE prev

RECURSIVE groupKeysAfter(_, _, _)
groupKeysAfter(ids, lab, k) ==
    IF k = 0 THEN <<>>
    ELSE LET prev == groupKeysAfter(ids, lab, k - 1)
             label == Lookup(lab, ids[k])
         IN  IF Truthy(label) /\ ~InSeq(label, prev) THEN Append(prev, label) ELSE prev

groupKeys(ids, lab) == groupKeysAfter(ids, lab, Len(ids))

\* labeledGroups[key]: the row indices carrying the label, ascending
labeledGroups(ids, lab, key) ==
    SelectSeq([i \in 1..Len(ids) |-> i - 1], LAMBDA r : Lookup(lab, ids[r + 1]) = key)

\* the (i, j) of the two nested loops, in loop order
RECURSIVE PairsFrom(_, _, _)
PairsFrom(i, j, g) ==
    IF i >= g - 1 THEN <<>>
    ELSE IF j >= g THEN PairsFrom(i + 1, i + 2, g)
    ELSE <<<<i, j>>>> \o PairsFrom(i, j + 1, g)

groupValues(emb, indices, dim) ==
    Array([k \in 1..Len(indices) |-> emb[indices[k] + 1][dim + 1]])

\* the testResult of every pair of the loops, for one dimension
testResults(emb, ids, lab, dim) ==
    LET keys == groupKeys(ids, lab)
        pairs == PairsFrom(0, 1, Len(keys))
    IN  Array([k \in 1..Len(pairs) |->
            LET g1 == labeledGroups(ids, lab, keys[pairs[k][1] + 1])
                g2 == labeledGroups(ids, lab, keys[pairs[k][2] + 1])
            IN  [i |-> pairs[k][1], j |-> pairs[k][2],
                 n1 |-> Len(g1), n2 |-> Len(g2),
                 testResult |-> performTTest(groupValues(emb, g1, dim),
                                             groupValues(emb, g2, dim))]])

\* minPValue and maxStatistic after the first k pairs
\* (a faulty variant: the statistic is kept with its sign, without Math.abs)
RECURSIVE scoreAfterSigned(_, _)
scoreAfterSigned(tests, k) ==
    IF k = 0 THEN [minPValue |-> OneP, maxStatistic |-> ZeroStat]
    ELSE LET prev == scoreAfterSigned(tests, k - 1)
             testResult == tests[k].testResult
         IN  IF PLess(testResult.pValue, prev.minPValue)
             THEN [minPValue |-> testResult.pValue,
                   maxStatistic |-> testResult.statistic]
             ELSE prev

RECURSIVE scoreAfter(_, _)
scoreAfter(tests, k) ==
    IF k = 0 THEN [minPValue |-> OneP, maxStatistic |-> ZeroStat]
    ELSE LET prev == scoreAfter(tests, k - 1)
             testResult == tests[k].testResult
         IN  IF PLess(testResult.pValue, prev.minPValue)
             THEN [minPValue |-> testResult.pValue,
                   maxStatistic |-> MathAbs(testResult.statistic)]
             ELSE prev

\* the entry pushed for a dimension, from the testResults of its pairs
scoreDimension(tests, dim) ==
    LET score == scoreAfter(tests, Len(tests))
    IN  [dimension |-> dim, pValue |-> score.minPValue, statistic |-> score.maxStatistic]

\* the comparator (a, b) => a.pValue - b.pValue, by its sign (NaN counts as 0)
\* (a faulty variant: b.pValue - a.pValue, a descending sort)
comparePValueDescending(a, b) ==
    IF PLess(b.pValue, a.pValue) THEN -1
    ELSE IF PLess(a.pValue, b.pValue) THEN 1 ELSE 0

comparePValue(a, b) ==
    IF PLess(a.pValue, b.pValue) THEN -1
    ELSE IF PLess(b.pValue, a.pValue) THEN 1 ELSE 0

\* Array.prototype.sort is stable: insertion behind every element that does
\* not compare greater
RECURSIVE insertSorted(_, _)
insertSorted(sorted, x) ==
    IF sorted = <<>> THEN <<x>>
    ELSE IF comparePValue(x, Head(sorted)) < 0 THEN <<x>> \o sorted
    ELSE <<Head(sorted)>> \o insertSorted(Tail(sorted), x)

RECURSIVE sortByPValue(_)
sortByPValue(s) ==
    IF s = <<>> THEN <<>>
    ELSE insertSorted(sortByPValue(SubSeq(s, 1, Len(s) - 1)), s[Len(s)])

NeedGroups == "Need at least 2 labeled groups for statistical analysis"
TypeErrorUndefined == "TypeError: Cannot read properties of undefined"

\* the Error selectDiscriminativeDimensions ends with, if any
rankingError(emb, lab, ids) ==
    IF Len(groupKeys(ids, lab)) < 2
    THEN NeedGroups
    ELSE IF Len(emb) = 0
    THEN TypeErrorUndefined                  \* embeddings[0].length
    ELSE IF /\ Len(emb[1]) > 0
            /\ \E r \in 1..Len(ids) : r > Len(emb) /\ Truthy(Lookup(lab, ids[r]))
    THEN TypeErrorUndefined                  \* embeddings[idx][dim] of a missing row
    ELSE NoError

\* (a faulty variant: dimensionStats is declared outside the function, and a
\* second call pushes its entries behind those the first call left there)
selectDiscriminativeDimensionsShared(emb, lab, ids, numDimensions) ==
    IF rankingError(emb, lab, ids) # NoError
    THEN [threw |-> rankingError(emb, lab, ids)]
    ELSE
        LET embeddingDimensions == Len(emb[1])
            tests == Array([d \in 1..embeddingDimensions |->
                               testResults(emb, ids, lab, d - 1)])
            scored == Array([d \in 1..embeddingDimensions |->
                                scoreDimension(tests[d], d - 1)])
            left == IF firstRun = [none |-> TRUE] \/ firstRun.rankTrace = [none |-> TRUE]
                    THEN <<>> ELSE firstRun.rankTrace.sorted
            sorted == sortByPValue(left \o scored)
            selected == Slice0(sorted, numDimensions)
        IN  [threw |-> NoError,
             selectedDimensions |-> Array([k \in 1..Len(selected) |-> selected[k].dimension]),
             dimensionStats |-> selected,
             sorted |-> sorted,
             testLog |-> tests]

selectDiscriminativeDimensions(emb, lab, ids, numDimensions) ==
    IF rankingError(emb, lab, ids) # NoError
    THEN [threw |-> rankingError(emb, lab, ids)]
    ELSE
        LET embeddingDimensions == Len(emb[1])
            tests == Array([d \in 1..embeddingDimensions |->
                               testResults(emb, ids, lab, d - 1)])
            scored == Array([d \in 1..embeddingDimensions |->
                                scoreDimension(tests[d], d - 1)])
            sorted == sortByPValue(scored)
            selected == Slice0(sorted, numDimensions)
        IN  [threw |-> NoError,
             selectedDimensions |-> Array([k \in 1..Len(selected) |-> selected[k].dimension]),
             dimensionStats |-> selected,
             sorted |-> sorted,
             testLog |-> tests]

----------------------------------------------------------------------------
\* performClustering: the standardization

RECURSIVE RSum(_)
RSum(s) == IF s = <<>> THEN <<0, 1>> ELSE RAdd(Head(s), RSum(Tail(s)))

\* embeddings.map(embedding => selectedDimensions.map(dim => embedding[dim]))
reducedEmbeddings(emb, sel) ==
    Array([r \in 1..Len(emb) |-> Array([c \in 1..Len(sel) |-> emb[r][sel[c] + 1]])])

\* matrix.mean('column')[col]
columnMean(matrix, col) ==
    Rat(SumSeq([r \in 1..Len(matrix) |-> matrix[r][col]]), Len(matrix))

\* the sum of the squared differences to the mean
squaredDeviations(matrix, col) ==
    LET mean == columnMean(matrix, col)
    IN  RSum([r \in 1..Len(matrix) |->
                 LET diff == RSub(RInt(matrix[r][col]), mean) IN RMul(diff, diff)])

\* (a faulty variant: the population standard deviation, sum / matrix.rows)
columnStdPopulation(matrix, col) ==
    [nan |-> FALSE, sq |-> RDiv(squaredDeviations(matrix, col), RInt(Len(matrix)))]

\* stds[col] = Math.sqrt(sum / (matrix.rows - 1)), kept as its square; with
\* one row it is sqrt(0 / 0) = NaN
columnStd(matrix, col) ==
    IF Len(matrix) - 1 = 0
    THEN [nan |-> TRUE, sq |-> <<0, 0>>]
    ELSE [nan |-> FALSE,
          sq |-> RDiv(squaredDeviations(matrix, col), RInt(Len(matrix) - 1))]

\* stds[col] > 0
stdPositive(std) == ~std.nan /\ std.sq[1] > 0

\* a matrix entry that was left alone, and one that was set to
\* (value - mean) / std
Raw(value) == [num |-> RInt(value), den2 |-> <<1, 1>>]
Scaled(value, mean, std) == [num |-> RSub(RInt(value), mean), den2 |-> std.sq]

\* (a faulty variant: a column without spread is centred like the others)
standardizeCentering(matrix, columns) ==
    LET means == Array([c \in 1..columns |-> columnMean(matrix, c)])
        stds == Array([c \in 1..columns |-> columnStd(matrix, c)])
    IN  [means |-> means,
         stds |-> stds,
         data |-> [r \in 1..Len(matrix) |-> [c \in 1..columns |->
                     IF stdPositive(stds[c])
                     THEN Scaled(matrix[r][c], means[c], stds[c])
                     ELSE [num |-> RSub(RInt(matrix[r][c]), means[c]),
                           den2 |-> <<1, 1>>]]]]

standardize(matrix, columns) ==
    LET means == Array([c \in 1..columns |-> columnMean(matrix, c)])
        stds == Array([c \in 1..columns |-> columnStd(matrix, c)])
    IN  [means |-> means,
         stds |-> stds,
         data |-> [r \in 1..Len(matrix) |-> [c \in 1..columns |->
                     IF stdPositive(stds[c])
                     THEN Scaled(matrix[r][c], means[c], stds[c])
                     ELSE Raw(matrix[r][c])]]]

----------------------------------------------------------------------------
\* ml-kmeans, as called by performClustering:
\*   kmeans(data, K, {initialization: 'random', maxIterations: 100})

MaxIterations == 100
\* the library's default tolerance on the squared distance a centre moved is
\* 1e-6 = 1 / ToleranceInverse
ToleranceInverse == 1000000
\* n / d > 1e-6, without multiplying by 1000000
aboveTolerance(distance) ==
    distance[1] > 0 /\ (distance[2] \div distance[1]) < ToleranceInverse
KError == "K should be a positive integer smaller than the number of points"

\* squaredEuclidean(p, q); the entries of one column share their den2
squaredEuclidean(p, q) ==
    RSum([c \in 1..Len(p) |->
             LET diff == RSub(p[c].num, q[c].num)
             IN  RDiv(RMul(diff, diff), p[c].den2)])

\* (a faulty variant: the position of the nearest centre, counted from 1)
RECURSIVE nearestFromOne(_, _, _)
nearestFromOne(centers, point, k) ==
    IF k = 0 THEN 0
    ELSE LET best == nearestFromOne(centers, point, k - 1)
         IN  IF best = 0 \/ RLess(squaredEuclidean(point, centers[k]),
                                  squaredEuclidean(point, centers[best]))
             THEN k ELSE best

\* the index of the first centre at minimal distance among the first k: it
\* starts at -1 with minDist = Number.MAX_VALUE, and a later centre wins only
\* when strictly nearer
RECURSIVE nearestAmong(_, _, _)
nearestAmong(centers, point, k) ==
    IF k = 0 THEN -1
    ELSE LET best == nearestAmong(centers, point, k - 1)
         IN  IF best = -1 \/ RLess(squaredEuclidean(point, centers[k]),
                                   squaredEuclidean(point, centers[best + 1]))
             THEN k - 1 ELSE best

updateClusterID(data, centers) ==
    Array([r \in 1..Len(data) |-> nearestAmong(centers, data[r], Len(centers))])

\* the mean of the points of each cluster; a cluster without points keeps
\* its previous centre
updateCenters(prevCenters, data, clusterID, K) ==
    Array([id \in 1..K |->
        LET members == SelectSeq([r \in 1..Len(data) |-> r],
                                 LAMBDA r : clusterID[r] = id - 1)
        IN  IF Len(members) = 0 THEN prevCenters[id]
            ELSE Array([c \in 1..Len(prevCenters[id]) |->
                     [num |-> RDiv(RSum([m \in 1..Len(members) |->
                                            data[members[m]][c].num]),
                                   RInt(Len(members))),
                      den2 |-> prevCenters[id][c].den2]])])

\* (a faulty variant: the comparison with the tolerance the wrong way round)
hasConvergedInverted(centers, oldCenters) ==
    \A i \in 1..Len(centers) :
        aboveTolerance(squaredEuclidean(centers[i], oldCenters[i]))

hasConverged(centers, oldCenters) ==
    \A i \in 1..Len(centers) :
        ~aboveTolerance(squaredEuclidean(centers[i], oldCenters[i]))

\* one call of step(): the new value of the loop's state
\* (a faulty variant: the result of hasConverged is dropped)
stepUnconverged(prev, data, K) ==
    LET clusterID == updateClusterID(data, prev.centers)
        newCenters == updateCenters(prev.centers, data, clusterID, K)
    IN  [initial |-> prev.initial,
         centers |-> newCenters,
         clusterID |-> clusterID,
         converged |-> FALSE,
         stepNumber |-> prev.stepNumber + 1]

step(prev, data, K) ==
    LET clusterID == updateClusterID(data, prev.centers)
        newCenters == updateCenters(prev.centers, data, clusterID, K)
    IN  [initial |-> prev.initial,
         centers |-> newCenters,
         clusterID |-> clusterID,
         converged |-> hasConverged(newCenters, prev.centers),
         stepNumber |-> prev.stepNumber + 1]

\* (a faulty variant: K < 0 in place of K <= 0)
rejectsNegativeK(K, n) == K < 0 \/ K > n

\* if (K <= 0 || K > data.length || !Number.isInteger(K)) throw
rejectsK(K, n) == K <= 0 \/ K > n

\* the sequences of K distinct row indices random.choice can draw
Choices(n, K) ==
    {idx \in [1..K -> 1..n] : \A i, j \in 1..K : i # j => idx[i] # idx[j]}

----------------------------------------------------------------------------
\* performPCA and the results object

Null == "<null>"

\* coordinates: a plain rational, an entry of the standardized matrix, or an
\* entry U[row][col] of the left singular vectors
Plain(n, d) == [k |-> "rat", v |-> Rat(n, d)]
Entry(z) == [k |-> "std", v |-> z]
LeftSingular(row, col) == [k |-> "U", row |-> row, col |-> col]

RangeErrorColumn == "RangeError: Column index out of range"

\* the main path of performPCA. The singular vectors and values are not
\* computed: an entry of U is kept by its position, an eigenvalue by its
\* index. What is computed is what the decomposition fixes exactly: the
\* matrix that is decomposed, the number of singular values, and the sum of
\* their squares, which is the sum of the squares of the entries.

\* centeredMatrix: matrix.get(row, col) - means[col]; the entries of a column
\* share their den2
centerColumns(data) ==
    LET means == Array([c \in 1..Len(data[1]) |->
                    RDiv(RSum(Array([r \in 1..Len(data) |-> data[r][c].num])),
                         RInt(Len(data)))])
    IN  Array([r \in 1..Len(data) |-> Array([c \in 1..Len(data[r]) |->
            [num |-> RSub(data[r][c].num, means[c]), den2 |-> data[r][c].den2]])])

\* the sum of sv * sv over svd.diagonal
sumOfSquares(matrix) ==
    RSum(Array([r \in 1..Len(matrix) |->
        RSum(Array([c \in 1..Len(matrix[r]) |->
            RDiv(RMul(matrix[r][c].num, matrix[r][c].num), matrix[r][c].den2)]))]))

NaNValue == [k |-> "NaN"]

\* eigenvalues[i] / totalVariance: 0 / 0 when no column varies
eigenvalueShare(i, totalVariance) ==
    IF totalVariance[1] = 0 THEN NaNValue ELSE [k |-> "eigenvalue share", i |-> i]

\* explainedVariance[0] + explainedVariance[1]: the whole when there are 2
\* eigenvalues
shareOfFirstTwo(singularValues, totalVariance) ==
    IF totalVariance[1] = 0 THEN NaNValue
    ELSE IF singularValues = 2 THEN Plain(1, 1)
    ELSE [k |-> "eigenvalue share", i |-> "0+1"]

\* (a faulty variant: the conventional scores U * S of the uncentred matrix)
decomposeScores(data) ==
    LET singularValues == Min(Len(data) + 1, Len(data[1]))
        totalVariance == RDiv(sumOfSquares(data), RInt(Len(data) - 1))
    IN  [threw |-> NoError, branch |-> "svd",
         decomposed |-> data,
         projectedData |-> [i \in 1..Len(data) |->
             <<[k |-> "U*S", row |-> i - 1, col |-> 0],
               [k |-> "U*S", row |-> i - 1, col |-> 1]>>],
         singularValues |-> singularValues,
         sumOfEigenvalues |-> totalVariance,
         explainedVariance |-> <<eigenvalueShare(0, totalVariance),
                                 eigenvalueShare(1, totalVariance)>>,
         totalVariance |-> shareOfFirstTwo(singularValues, totalVariance)]

decompose(data) ==
    LET centeredMatrix == centerColumns(data)
        \* s has Math.min(m + 1, n) entries
        singularValues == Min(Len(data) + 1, Len(data[1]))
        totalVariance == RDiv(sumOfSquares(centeredMatrix), RInt(Len(data) - 1))
    IN  [threw |-> NoError, branch |-> "svd",
         decomposed |-> centeredMatrix,
         projectedData |-> [i \in 1..Len(data) |->
             <<LeftSingular(i - 1, 0), LeftSingular(i - 1, 1)>>],
         singularValues |-> singularValues,
         sumOfEigenvalues |-> totalVariance,
         explainedVariance |-> <<eigenvalueShare(0, totalVariance),
                                 eigenvalueShare(1, totalVariance)>>,
         totalVariance |-> shareOfFirstTwo(singularValues, totalVariance)]

\* (a faulty variant: the guard tests data.length only, and rows without
\* columns take the path of the matrices with one column)
performPCARowGuardOnly(data) ==
    IF Len(data) = 0
    THEN [threw |-> NoError, branch |-> "empty",
          projectedData |-> <<>>,
          explainedVariance |-> <<Plain(1, 1), Plain(0, 1)>>,
          totalVariance |-> Plain(1, 1)]
    ELSE IF Len(data[1]) < 2
    THEN [threw |-> NoError, branch |-> "single",
          projectedData |-> [i \in 1..Len(data) |->
              <<IF Len(data[i]) = 0 \/ data[i][1].num[1] = 0
                THEN Plain(0, 1) ELSE Entry(data[i][1]),
                Plain(i - 1, 10)>>],
          explainedVariance |-> <<Plain(1, 1), Plain(0, 1)>>,
          totalVariance |-> Plain(1, 1)]
    ELSE IF Len(data) < 2
    THEN [threw |-> RangeErrorColumn]
    ELSE decompose(data)

\* analysis.ts: the SVD-based projection
performPCA(data) ==
    IF Len(data) = 0 \/ Len(data[1]) = 0
    THEN [threw |-> NoError, branch |-> "empty",
          projectedData |-> [i \in 1..Len(data) |-> <<Plain(i - 1, 1), Plain(0, 1)>>],
          explainedVariance |-> <<Plain(1, 1), Plain(0, 1)>>,
          totalVariance |-> Plain(1, 1)]
    ELSE IF Len(data[1]) < 2
    THEN [threw |-> NoError, branch |-> "single",
          projectedData |-> [i \in 1..Len(data) |->
              <<IF data[i][1].num[1] = 0 THEN Plain(0, 1) ELSE Entry(data[i][1]),
                Plain(i - 1, 10)>>],
          explainedVariance |-> <<Plain(1, 1), Plain(0, 1)>>,
          totalVariance |-> Plain(1, 1)]
    ELSE IF Len(data) < 2
    THEN [threw |-> RangeErrorColumn]   \* U has one column: getColumn(1) throws
    ELSE decompose(data)

\* route.ts: the first two columns
performPCAServer(data) ==
    IF Len(data) = 0 \/ Len(data[1]) < 2
    THEN [threw |-> NoError, branch |-> "empty",
          projectedData |-> [i \in 1..Len(data) |-> <<Plain(i - 1, 1), Plain(0, 1)>>],
          explainedVariance |-> <<Plain(1, 1), Plain(0, 1)>>,
          totalVariance |-> Plain(1, 1)]
    ELSE [threw |-> NoError, branch |-> "firstTwo",
          projectedData |-> [i \in 1..Len(data) |-> <<Entry(data[i][1]), Entry(data[i][2])>>],
          explainedVariance |-> <<Plain(8, 10), Plain(2, 10)>>,
          totalVariance |-> Plain(1, 1)]

At(arr, i) == IF i \in 1..Len(arr) THEN arr[i] ELSE Undefined

\* labels[id] || null
labelOrNull(lab, id) ==
    IF id # Undefined /\ Truthy(Lookup(lab, id)) THEN Lookup(lab, id) ELSE Null

\* Step 4 of performAnalysis and of POST
assembleResults(ids, lab, emb, conf, selected, stats, clustering, pca, total) ==
    [clusterAssignments |-> clustering.clusters,
     visualization |->
        [points |-> [i \in 1..Len(pca.projectedData) |->
                        [x |-> pca.projectedData[i][1],
                         y |-> pca.projectedData[i][2],
                         identifier |-> At(ids, i),
                         cluster |-> At(clustering.clusters, i),
                         label |-> labelOrNull(lab, At(ids, i))]],
         explainedVariance |-> pca.explainedVariance,
         totalVarianceExplained |-> total],
     statistics |->
        [selectedDimensions |-> selected,
         dimensionStats |-> [i \in 1..Len(stats) |->
                                [dimension |-> stats[i].dimension,
                                 pValue |-> stats[i].pValue]],
         numClusters |-> conf.numClusters,
         numDimensions |-> conf.numDimensions,
         totalSamples |-> Len(emb),
         labeledSamples |-> Cardinality(DOMAIN lab)],
     clusters |-> [c \in 1..Max(conf.numClusters, 0) |->
                     LET rows == SelectSeq([i \in 1..Len(ids) |-> i],
                                           LAMBDA i : /\ i <= Len(clustering.clusters)
                                                      /\ clustering.clusters[i] = c - 1)
                     IN  [id |-> c - 1,
                          items |-> [m \in 1..Len(rows) |->
                                       [identifier |-> ids[rows[m]],
                                        label |-> labelOrNull(lab, ids[rows[m]])]],
                          size |-> Len(rows)]]]

----------------------------------------------------------------------------
\* Inputs

\* columns of n rows
ColumnPattern(name, n) ==
    CASE name = "const"  -> [i \in 1..n |-> 2]
      [] name = "ramp"   -> [i \in 1..n |-> i]
      [] name = "square" -> [i \in 1..n |-> i * i]
      [] name = "alt"    -> [i \in 1..n |-> i % 2]
      [] name = "step"   -> [i \in 1..n |-> IF i <= 2 THEN i - 1 ELSE 8 + i]

PatternNames == {"const", "ramp", "square", "alt"}

\* the n x d matrix whose column c follows pattern cols[c]
MatrixOf(cols, n) ==
    [r \in 1..n |-> [c \in 1..Len(cols) |-> ColumnPattern(cols[c], n)[r]]]

RowIds == <<"r1", "r2", "r3", "r4", "r5", "r6", "r7", "r8", "r9", "r10">>

\* the label map that gives row i the label lab[i], unless none
NoLabel == "-"
LabelMap(lab) ==
    [id \in {RowIds[i] : i \in {j \in 1..Len(lab) : lab[j] # NoLabel}} |->
        lab[CHOOSE i \in 1..Len(lab) : RowIds[i] = id]]

ThreeGroups(n) ==
    { [i \in 1..n |-> <<"A", "B", "C">>[((i - 1) % 3) + 1]],
      [i \in 1..n |-> IF i = 1 THEN "C" ELSE IF i % 2 = 0 THEN "A" ELSE "B"],
      [i \in 1..n |-> IF i <= 2 THEN "A" ELSE IF i = 3 THEN "B" ELSE "C"] }

\* every labelling of the n rows with up to two labels, the label that occurs
\* first being called "A" (the code compares labels, it never reads them)
Labelings(n) ==
    {lab \in [1..n -> {NoLabel, "A", "B"}] :
        \A i \in 1..n : lab[i] = "B" => \E j \in 1..(i - 1) : lab[j] = "A"}
    \cup ThreeGroups(n)

Nothing == [none |-> TRUE]
NoLoop ==
    [initial |-> <<>>, centers |-> <<>>, clusterID |-> <<>>, converged |-> FALSE,
     stepNumber |-> 0]

NoGeneration == [none |-> TRUE]

NoRun ==
    /\ pc = "start"
    /\ dimensionStats = <<>>
    /\ rankTrace = Nothing
    /\ standardized = Nothing
    /\ loop = NoLoop
    /\ clusteringResult = Nothing
    /\ pcaResult = Nothing
    /\ results = Nothing
    /\ status = 0
    /\ error = NoError
    /\ firstRun = Nothing

Fresh == NoRun /\ home = Nothing

Untouched == Fresh /\ generation = NoGeneration

----------------------------------------------------------------------------
\* The steps of the functions

Pipelines == {"performAnalysis", "POST"}

\* an Error thrown at this point: it leaves performAnalysis and the
\* functions called on their own, and POST's catch answers it with status 500
Throw(message) ==
    /\ error' = message
    /\ pc' = IF call = "POST" THEN "responded" ELSE "threw"
    /\ status' = IF call = "POST" THEN 500 ELSE status

\* what the caller gets of an Error: the catch of POST answers
\* { error: `Analysis failed: ${error.message}` }, which names the call and no
\* step of it; performAnalysis and the functions it calls have no catch, and
\* the Error reaches the caller as it was thrown
AnalysisFailed == "Analysis failed: "

failureReported ==
    IF call = "POST" /\ status = 500
    THEN [caught |-> TRUE, prefix |-> AnalysisFailed, stage |-> "analysis", message |-> error]
    ELSE [caught |-> FALSE, prefix |-> "", stage |-> "", message |-> error]

AtRanking ==
    \/ call = "selectDiscriminativeDimensions" /\ pc = "start"
    \/ call = "performAnalysis" /\ pc = "start"
    \/ call = "POST" /\ pc = "validated"

SelectDimensions ==
    /\ AtRanking
    /\ rankingError(embeddings, labels, identifiers) = NoError
    /\ LET r == selectDiscriminativeDimensions(embeddings, labels, identifiers,
                                               config.numDimensions)
       IN  /\ r.threw = NoError
           /\ selectedDimensions' = r.selectedDimensions
           /\ dimensionStats' = r.dimensionStats
           /\ rankTrace' = [sorted |-> r.sorted, testLog |-> r.testLog]
    /\ pc' = IF call \in Pipelines THEN "ranked" ELSE "returned"
    /\ UNCHANGED <<inputs, clustered, outcome, firstRun, generation, home>>

SelectDimensionsThrows ==
    /\ AtRanking
    /\ rankingError(embeddings, labels, identifiers) # NoError
    /\ Throw(selectDiscriminativeDimensions(embeddings, labels, identifiers,
                                            config.numDimensions).threw)
    /\ UNCHANGED <<inputs, ranked, clustered, pcaResult, results, firstRun, generation, home>>

AtClustering ==
    \/ call = "performClustering" /\ pc = "start"
    \/ call \in Pipelines /\ pc = "ranked"

\* the first half of performClustering, up to the call of kmeans
Standardize ==
    /\ AtClustering
    /\ standardized' = standardize(reducedEmbeddings(embeddings, selectedDimensions),
                                   Len(selectedDimensions))
    /\ pc' = "standardized"
    /\ UNCHANGED <<inputs, ranked, loop, clusteringResult, outcome, firstRun, generation, home>>

\* kmeans rejects K
KMeansThrows ==
    /\ pc = "standardized"
    /\ rejectsK(config.numClusters, Len(standardized.data))
    /\ Throw(KError)
    /\ UNCHANGED <<inputs, ranked, clustered, pcaResult, results, firstRun, generation, home>>

\* initialization: 'random' draws K distinct rows as the first centres
KMeansInit ==
    /\ pc = "standardized"
    /\ ~rejectsK(config.numClusters, Len(standardized.data))
    /\ \E idx \in Choices(Len(standardized.data), config.numClusters) :
         loop' = [initial |-> [i \in 1..config.numClusters |-> idx[i] - 1],
                  centers |-> [i \in 1..config.numClusters |-> standardized.data[idx[i]]],
                  clusterID |-> <<>>,
                  converged |-> FALSE,
                  stepNumber |-> 0]
    /\ pc' = "kmeans"
    /\ UNCHANGED <<inputs, ranked, standardized, clusteringResult, outcome, firstRun, generation, home>>

\* while (!converged && stepNumber < maxIterations)
KMeansStep ==
    /\ pc = "kmeans"
    /\ ~loop.converged
    /\ loop.stepNumber < MaxIterations
    /\ loop' = step(loop, standardized.data, config.numClusters)
    /\ UNCHANGED <<inputs, pc, ranked, standardized, clusteringResult, outcome, firstRun, generation, home>>

\* kmeans returns, and performClustering with it
KMeansReturn ==
    /\ pc = "kmeans"
    /\ loop.converged \/ loop.stepNumber >= MaxIterations
    /\ clusteringResult' = [clusters |-> loop.clusterID,
                            centroids |-> loop.centers,
                            standardizedData |-> standardized.data,
                            means |-> standardized.means,
                            stds |-> standardized.stds]
    /\ pc' = IF call \in Pipelines THEN "clustered" ELSE "returned"
    /\ UNCHANGED <<inputs, ranked, standardized, loop, outcome, firstRun, generation, home>>

\* new Matrix(reducedEmbeddings) on rows without columns: releases of
\* ml-matrix differ, the older ones throw, the newer ones build an N x 0 matrix
MatrixError == "TypeError: Data must be a 2D array with at least one element"

MatrixThrows ==
    /\ AtClustering
    /\ Len(selectedDimensions) = 0
    /\ Throw(MatrixError)
    /\ UNCHANGED <<inputs, ranked, clustered, pcaResult, results, firstRun, generation, home>>

\* performPCA of analysis.ts and performPCA of route.ts, called on their own
\* with embeddings as their data
Projectors == {"performPCA", "route.performPCA"}

AtProjection ==
    \/ call \in Pipelines /\ pc = "clustered"
    \/ call \in Projectors /\ pc = "start"

\* the argument of performPCA
projectorData ==
    IF call \in Pipelines THEN clusteringResult.standardizedData
    ELSE [r \in 1..Len(embeddings) |->
             [c \in 1..Len(embeddings[r]) |-> Raw(embeddings[r][c])]]

projection ==
    IF call \in {"POST", "route.performPCA"} THEN performPCAServer(projectorData)
    ELSE performPCA(projectorData)

\* Step 3
Project ==
    /\ AtProjection
    /\ projection.threw = NoError
    /\ pcaResult' = projection
    /\ pc' = IF call \in Pipelines THEN "projected" ELSE "returned"
    /\ UNCHANGED <<inputs, ranked, clustered, results, status, error, firstRun, generation, home>>

\* getColumn(1) of the left singular vectors throws.  No run of the pipeline
\* gets here: a matrix of one row has at most one labelled group, and the
\* ranker has thrown
ProjectThrows ==
    /\ AtProjection
    /\ projection.threw # NoError
    /\ Throw(projection.threw)
    /\ UNCHANGED <<inputs, ranked, clustered, pcaResult, results, firstRun, generation, home>>

\* Step 4 and the return
Assemble ==
    /\ call \in Pipelines
    /\ pc = "projected"
    /\ results' = assembleResults(identifiers, labels, embeddings, config,
                                  selectedDimensions, dimensionStats,
                                  clusteringResult, pcaResult,
                                  IF call = "POST" THEN Plain(1, 1)
                                  ELSE pcaResult.totalVariance)
    /\ pc' = IF call = "POST" THEN "responded" ELSE "returned"
    /\ status' = IF call = "POST" THEN 200 ELSE status
    /\ UNCHANGED <<inputs, ranked, clustered, pcaResult, error, firstRun, generation, home>>

\* the validation of POST
LengthError == "Embeddings and identifiers arrays must have the same length"
LabelsError == "At least 2 labeled examples are required for analysis"

Reject(message) ==
    /\ status' = 400
    /\ error' = message
    /\ pc' = "responded"

ValidateRejectsLengths ==
    /\ call = "POST"
    /\ pc = "start"
    /\ Len(embeddings) # Len(identifiers)
    /\ Reject(LengthError)
    /\ UNCHANGED <<inputs, ranked, clustered, pcaResult, results, firstRun, generation, home>>

ValidateRejectsLabels ==
    /\ call = "POST"
    /\ pc = "start"
    /\ Len(embeddings) = Len(identifiers)
    /\ Cardinality(DOMAIN labels) < 2
    /\ Reject(LabelsError)
    /\ UNCHANGED <<inputs, ranked, clustered, pcaResult, results, firstRun, generation, home>>

Validate ==
    /\ call = "POST"
    /\ pc = "start"
    /\ Len(embeddings) = Len(identifiers)
    /\ Cardinality(DOMAIN labels) >= 2
    /\ pc' = "validated"
    /\ UNCHANGED <<inputs, ranked, clustered, outcome, firstRun, generation, home>>

Finished == pc \in {"returned", "threw", "responded"}

\* the caller runs the same call again on the same input
Rerun ==
    /\ Finished
    /\ firstRun = Nothing
    /\ firstRun' = [pc |-> pc, selectedDimensions |-> selectedDimensions,
                    dimensionStats |-> dimensionStats, rankTrace |-> rankTrace,
                    standardized |-> standardized, loop |-> loop,
                    clusteringResult |-> clusteringResult, results |-> results,
                    status |-> status, error |-> error]
    /\ pc' = "start"
    /\ selectedDimensions' = IF call = "performClustering" THEN selectedDimensions ELSE <<>>
    /\ dimensionStats' = <<>>
    /\ rankTrace' = Nothing
    /\ standardized' = Nothing
    /\ loop' = NoLoop
    /\ clusteringResult' = Nothing
    /\ pcaResult' = Nothing
    /\ results' = Nothing
    /\ status' = 0
    /\ error' = NoError
    /\ UNCHANGED <<inputs, generation, home>>

\* the same input, sent to /api/analyze after performAnalysis has run on it
RunOnServer ==
    /\ call = "performAnalysis"
    /\ Finished
    /\ firstRun = Nothing
    /\ firstRun' = [pc |-> pc, selectedDimensions |-> selectedDimensions,
                    dimensionStats |-> dimensionStats, rankTrace |-> rankTrace,
                    standardized |-> standardized, loop |-> loop,
                    clusteringResult |-> clusteringResult, results |-> results,
                    status |-> status, error |-> error]
    /\ pc' = "start"
    /\ selectedDimensions' = <<>>
    /\ dimensionStats' = <<>>
    /\ rankTrace' = Nothing
    /\ standardized' = Nothing
    /\ loop' = NoLoop
    /\ clusteringResult' = Nothing
    /\ pcaResult' = Nothing
    /\ results' = Nothing
    /\ status' = 0
    /\ error' = NoError
    /\ call' = "POST"
    /\ UNCHANGED <<embeddings, labels, identifiers, config, generation, home>>

----------------------------------------------------------------------------
\* The ranker called on its own

InitRank ==
    /\ call = "selectDiscriminativeDimensions"
    /\ \E n \in 0..MaxRows, d \in 1..MaxDims :
        /\ \E cols \in [1..d -> PatternNames] : embeddings = MatrixOf(cols, n)
        /\ identifiers = SubSeq(RowIds, 1, n)
        /\ \E lab \in Labelings(n) : labels = LabelMap(lab)
        /\ \E nd \in -1..MaxDims :
             config = [numDimensions |-> nd, numClusters |-> 2]
    /\ selectedDimensions = <<>>
    /\ Untouched

NextRank == SelectDimensions \/ SelectDimensionsThrows

SpecRank == InitRank /\ [][NextRank]_vars

----------------------------------------------------------------------------
\* performClustering called on its own

ClusterColumns ==
    { <<"ramp">>, <<"const">>, <<"step">>, <<"const", "ramp">>,
      <<"square", "alt">>, <<"alt", "const">> }

\* the selections of the d columns: every non-empty one, in either order
Selections(d) ==
    IF d = 1 THEN {<<0>>} ELSE {<<0>>, <<1>>, <<0, 1>>, <<1, 0>>}

InitCluster ==
    /\ call = "performClustering"
    /\ \E n \in 1..MaxClusterRows, cols \in ClusterColumns :
        /\ embeddings = MatrixOf(cols, n)
        /\ identifiers = SubSeq(RowIds, 1, n)
        /\ \E sel \in Selections(Len(cols)) : selectedDimensions = sel
        /\ \E k \in -1..MaxClusters :
             config = [numDimensions |-> Len(selectedDimensions), numClusters |-> k]
    /\ labels = <<>>
    /\ Untouched

NextCluster == Standardize \/ KMeansThrows \/ KMeansInit \/ KMeansStep \/ KMeansReturn

SpecCluster == InitCluster /\ [][NextCluster]_vars

\* the same, run to its end: the call is synchronous, so each of its steps is
\* taken once it can be (weak fairness of every action). For Standardize and
\* KMeansStep, WF_vars(A) is written out as
\*   []<>(~ENABLED <<A>>_vars) \/ []<><<A>>_vars
\* with the guard of the action for its ENABLED (either step changes pc or
\* loop.stepNumber).
CanStep == pc = "kmeans" /\ ~loop.converged /\ loop.stepNumber < MaxIterations

SpecClusterRuns ==
    /\ SpecCluster
    /\ WF_vars(KMeansThrows) /\ WF_vars(KMeansInit) /\ WF_vars(KMeansReturn)
    /\ ([]<>(~AtClustering) \/ []<><<Standardize>>_vars)
    /\ ([]<>(~CanStep) \/ []<><<KMeansStep>>_vars)

----------------------------------------------------------------------------
\* The whole pipeline: performAnalysis (client) and POST /api/analyze (server)

PipelineColumns == { <<"ramp">>, <<"square", "const">>, <<"step", "alt">> }

PatternLabelings(m) ==
    { [i \in 1..m |-> NoLabel],
      [i \in 1..m |-> "A"],
      [i \in 1..m |-> IF i <= 2 THEN "A" ELSE IF i <= 4 THEN "B" ELSE NoLabel],
      [i \in 1..m |-> IF i % 2 = 1 THEN "A" ELSE "B"],
      [i \in 1..m |-> IF i = 1 THEN "" ELSE IF i = 2 THEN "A" ELSE "B"],
      [i \in 1..m |-> <<"A", "B", "C">>[((i - 1) % 3) + 1]] }

\* labels whose keys are no identifiers of the data
GhostLabels == [id \in {"x1", "x2"} |-> IF id = "x1" THEN "A" ELSE "B"]

PipelineLabels(m) == {LabelMap(lab) : lab \in PatternLabelings(m)} \cup {GhostLabels}

Init ==
    /\ call \in Pipelines
    /\ \E n \in 0..MaxRows, cols \in PipelineColumns :
        /\ embeddings = MatrixOf(cols, n)
        /\ \E m \in {n - 1, n, n + 1} \cap Nat :
            /\ identifiers = SubSeq(RowIds, 1, m)
            /\ labels \in PipelineLabels(m)
    /\ \E nd \in -1..MaxDims, k \in 0..MaxClusters :
         config = [numDimensions |-> nd, numClusters |-> k]
    /\ selectedDimensions = <<>>
    /\ Untouched

Next ==
    \/ ValidateRejectsLengths \/ ValidateRejectsLabels \/ Validate
    \/ SelectDimensions \/ SelectDimensionsThrows
    \/ MatrixThrows \/ Standardize
    \/ KMeansThrows \/ KMeansInit \/ KMeansStep \/ KMeansReturn
    \/ Project \/ Assemble

Spec == Init /\ [][Next]_vars

----------------------------------------------------------------------------
\* performClustering on one column that holds two groups of values, K = 2

MaxLowRows == 4
MaxHighRows == 2

\* the values of a group of n rows, from 0 on
BlobShape(name, n) ==
    CASE name = "point"   -> [i \in 1..n |-> 0]
      [] name = "outlier" -> [i \in 1..n |-> IF i = 1 THEN 0 ELSE 2]

BlobShapes == {"point", "outlier"}

\* the distances between the largest value of the lower group and the
\* smallest of the upper one
BlobGaps == {1, 3, 7}

\* the lower group, and the upper group behind the gap
BlobValues(lowShape, nLow, highShape, nHigh, gap) ==
    LET low == BlobShape(lowShape, nLow)
        top == IF \E i \in 1..nLow : low[i] = 2 THEN 2 ELSE 0
    IN  low \o [i \in 1..nHigh |-> top + gap + BlobShape(highShape, nHigh)[i]]

Reversed(s) == [i \in 1..Len(s) |-> s[Len(s) + 1 - i]]

InitBlobs ==
    /\ call = "performClustering"
    /\ \E nLow \in 1..MaxLowRows, nHigh \in 1..MaxHighRows,
          lowShape, highShape \in BlobShapes, gap \in BlobGaps, backwards \in BOOLEAN :
         LET values == BlobValues(lowShape, nLow, highShape, nHigh, gap)
             column == IF backwards THEN Reversed(values) ELSE values
         IN  /\ embeddings = [r \in 1..Len(column) |-> <<column[r]>>]
             /\ identifiers = SubSeq(RowIds, 1, Len(column))
    /\ selectedDimensions = <<0>>
    /\ config = [numDimensions |-> 1, numClusters |-> 2]
    /\ labels = <<>>
    /\ Untouched

NextBlobs == Standardize \/ KMeansInit \/ KMeansStep \/ KMeansReturn

SpecBlobs == InitBlobs /\ [][NextBlobs]_vars

----------------------------------------------------------------------------
\* performClustering called twice by one caller, on the same arguments

InitTwoRuns ==
    /\ call = "performClustering"
    /\ \E n \in 1..MaxClusterRows, cols \in {<<"ramp">>, <<"alt", "const">>} :
        /\ embeddings = MatrixOf(cols, n)
        /\ identifiers = SubSeq(RowIds, 1, n)
        /\ selectedDimensions = [c \in 1..Len(cols) |-> c - 1]
        /\ \E k \in 0..MaxClusters :
             config = [numDimensions |-> Len(cols), numClusters |-> k]
    /\ labels = <<>>
    /\ Untouched

NextTwoRuns == NextCluster \/ Rerun

SpecTwoRuns == InitTwoRuns /\ [][NextTwoRuns]_vars

----------------------------------------------------------------------------
\* The pipeline run twice by one caller, on the same input

RerunLabelings(n) ==
    { [i \in 1..n |-> IF i % 2 = 1 THEN "A" ELSE "B"],
      [i \in 1..n |-> IF i <= 2 THEN "A" ELSE IF i <= 4 THEN "B" ELSE NoLabel],
      [i \in 1..n |-> "A"],
      [i \in 1..n |-> NoLabel] }

InitRerun ==
    /\ call \in Pipelines
    /\ \E n \in {MaxRows - 1, MaxRows}, cols \in PipelineColumns :
        /\ embeddings = MatrixOf(cols, n)
        /\ \E m \in {n - 1, n} :
            /\ identifiers = SubSeq(RowIds, 1, m)
            /\ \E lab \in RerunLabelings(m) : labels = LabelMap(lab)
    /\ \E nd \in 1..MaxDims, k \in 0..2 :
         config = [numDimensions |-> nd, numClusters |-> k]
    /\ selectedDimensions = <<>>
    /\ Untouched

\* with numDimensions >= 1 the selection of a ranker that returned is never
\* empty, and new Matrix never gets rows without columns
NextRerun ==
    \/ ValidateRejectsLengths \/ ValidateRejectsLabels \/ Validate
    \/ SelectDimensions \/ SelectDimensionsThrows
    \/ Standardize
    \/ KMeansThrows \/ KMeansInit \/ KMeansStep \/ KMeansReturn
    \/ Project \/ Assemble
    \/ Rerun

SpecRerun == InitRerun /\ [][NextRerun]_vars

----------------------------------------------------------------------------
\* performPCA called on its own

InitProject ==
    /\ call \in Projectors
    /\ \E n \in 0..MaxRows, d \in 0..MaxDims :
         \E cols \in [1..d -> PatternNames] : embeddings = MatrixOf(cols, n)
    /\ identifiers = <<>>
    /\ labels = <<>>
    /\ config = [numDimensions |-> 0, numClusters |-> 0]
    /\ selectedDimensions = <<>>
    /\ Untouched

NextProject == Project \/ ProjectThrows

SpecProject == InitProject /\ [][NextProject]_vars

----------------------------------------------------------------------------
\* The pipeline on a matrix whose rows differ in length: one row holds a value
\* more than the first row, whose length the code takes as the number of
\* dimensions

Ragged(matrix, long) ==
    [r \in 1..Len(matrix) |-> IF r = long THEN Append(matrix[r], 7) ELSE matrix[r]]

InitRagged ==
    /\ call \in Pipelines
    /\ \E cols \in PipelineColumns, long \in {2, MaxRows} :
         embeddings = Ragged(MatrixOf(cols, MaxRows), long)
    /\ \E m \in {MaxRows - 1, MaxRows} :
         /\ identifiers = SubSeq(RowIds, 1, m)
         /\ labels \in PipelineLabels(m)
    /\ \E nd \in {0, MaxDims}, k \in {0, 2} :
         config = [numDimensions |-> nd, numClusters |-> k]
    /\ selectedDimensions = <<>>
    /\ Untouched

SpecRagged == InitRagged /\ [][Next]_vars

----------------------------------------------------------------------------
\* The generation of the embeddings: processData of page.tsx sends the
\* descriptions of the CSV rows to /api/embeddings, whose POST hands them to
\* the embeddings service in batches.  A description is a non-empty string or
\* not, nothing else of it is read; descriptions is always an array, as
\* processData builds it with csvData.map

MaxCsvRows == 2001

\* if (descriptions.length > 2000)
MaximumAllowed == 2000
batchSize == 50

EmptyError == "Descriptions array cannot be empty"
TooManyError == "Too many descriptions. Maximum 2000 allowed."
BlankError == "All descriptions must be non-empty strings"
RateLimitError == "Rate limit exceeded. Please try again in a moment."
ApiKeyError == "Invalid OpenAI API key. Please check your configuration."
OpenAIError == "OpenAI API error: "
CountError == "Mismatch in embeddings count"
DimensionsError == "Invalid embedding dimensions. Expected 1536"
expectedDimensions == 1536

\* the locals of POST /api/embeddings before the loop, and what is recorded of
\* its calls of the service and of its response: embeddings is
\* embeddings.length, inOrder says that embeddings[j] was returned for
\* descriptions[j] for every j, ofLength that every embedding has 1536 values
NewGeneration(n, blank) ==
    [rows |-> n, blank |-> blank, fetches |-> <<>>, i |-> 0, embeddings |-> 0,
     inOrder |-> TRUE, ofLength |-> TRUE, calls |-> 0, failedAt |-> 0,
     body |-> Nothing]

InitEmbed ==
    /\ call = "processData"
    /\ \E n \in 0..MaxCsvRows, blank \in BOOLEAN :
         generation = NewGeneration(n, blank /\ n > 0)
    /\ embeddings = <<>>
    /\ identifiers = <<>>
    /\ labels = <<>>
    /\ config = [numDimensions |-> 40, numClusters |-> 2]
    /\ selectedDimensions = <<>>
    /\ Fresh

\* processData, Step 1: one fetch with the descriptions of all rows
FetchEmbeddings ==
    /\ call = "processData"
    /\ pc = "start"
    /\ generation' = [generation EXCEPT
                         !.fetches = Append(@, [url |-> "/api/embeddings",
                                                descriptions |-> generation.rows])]
    /\ pc' = "embeddings: received"
    /\ UNCHANGED <<inputs, ranked, clustered, outcome, firstRun, home>>

\* the descriptions of the request POST /api/embeddings is handling
descriptionsLength == generation.fetches[Len(generation.fetches)].descriptions

\* POST /api/embeddings: the checks of the request, in their order
embeddingsRequestError ==
    IF descriptionsLength = 0 THEN EmptyError
    ELSE IF descriptionsLength > MaximumAllowed THEN TooManyError
    ELSE IF generation.blank THEN BlankError
    ELSE NoError

\* (a faulty variant: the response carries the embeddings collected so far)
errorResponseWithEmbeddings(message) ==
    [error |-> message,
     embeddings |-> [count |-> generation.embeddings, inOrder |-> generation.inOrder,
                     ofLength |-> generation.ofLength]]

\* NextResponse.json({ error: ... }, { status })
errorResponse(message) == [error |-> message]

EmbeddingsRejects ==
    /\ pc = "embeddings: received"
    /\ embeddingsRequestError # NoError
    /\ status' = 400
    /\ error' = embeddingsRequestError
    /\ generation' = [generation EXCEPT !.body = errorResponse(embeddingsRequestError)]
    /\ pc' = "embeddings: responded"
    /\ UNCHANGED <<inputs, ranked, clustered, pcaResult, results, firstRun, home>>

EmbeddingsAccepts ==
    /\ pc = "embeddings: received"
    /\ embeddingsRequestError = NoError
    /\ generation' = [generation EXCEPT !.i = 0, !.embeddings = 0]
    /\ pc' = "embeddings: batches"
    /\ UNCHANGED <<inputs, ranked, clustered, outcome, firstRun, home>>

\* one turn of the loop: the service answers the batch with an embedding per
\* description
EmbeddingsBatch ==
    /\ pc = "embeddings: batches"
    /\ generation.i < descriptionsLength
    /\ generation' = [generation EXCEPT
                         !.embeddings = @ + Min(batchSize, descriptionsLength - generation.i),
                         !.inOrder = @ /\ generation.embeddings = generation.i,
                         !.calls = @ + 1,
                         !.i = @ + batchSize]
    /\ UNCHANGED <<inputs, pc, ranked, clustered, outcome, firstRun, home>>

\* one turn of the loop: the service answers the batch with one embedding
\* less than descriptions, or with embeddings that have not 1536 values
EmbeddingsBatchShort ==
    /\ pc = "embeddings: batches"
    /\ generation.i < descriptionsLength
    /\ generation' = [generation EXCEPT
                         !.embeddings = @ + Min(batchSize, descriptionsLength - generation.i) - 1,
                         !.inOrder = @ /\ generation.embeddings = generation.i,
                         !.calls = @ + 1,
                         !.i = @ + batchSize]
    /\ UNCHANGED <<inputs, pc, ranked, clustered, outcome, firstRun, home>>

EmbeddingsBatchOtherLength ==
    /\ pc = "embeddings: batches"
    /\ generation.i < descriptionsLength
    /\ generation' = [generation EXCEPT
                         !.embeddings = @ + Min(batchSize, descriptionsLength - generation.i),
                         !.inOrder = @ /\ generation.embeddings = generation.i,
                         !.ofLength = FALSE,
                         !.calls = @ + 1,
                         !.i = @ + batchSize]
    /\ UNCHANGED <<inputs, pc, ranked, clustered, outcome, firstRun, home>>

\* one turn of the loop: the service fails, and POST answers at once
EmbeddingsBatchFails ==
    /\ pc = "embeddings: batches"
    /\ generation.i < descriptionsLength
    /\ \E apiStatus \in {429, 401, 503} :
         /\ status' = IF apiStatus \in {429, 401} THEN apiStatus ELSE 500
         /\ error' = IF apiStatus = 429 THEN RateLimitError
                      ELSE IF apiStatus = 401 THEN ApiKeyError ELSE OpenAIError
    /\ generation' = [generation EXCEPT !.i = 0, !.embeddings = 0,
                                        !.calls = @ + 1,
                                        !.failedAt = generation.calls + 1,
                                        !.body = errorResponse(error')]
    /\ pc' = "embeddings: responded"
    /\ UNCHANGED <<inputs, ranked, clustered, pcaResult, results, firstRun, home>>

\* the loop is over: an embedding per description, each of 1536 values
EmbeddingsReturns ==
    /\ pc = "embeddings: batches"
    /\ generation.i >= descriptionsLength
    /\ generation.embeddings = descriptionsLength
    /\ generation.ofLength
    /\ status' = 200
    /\ generation' = [generation EXCEPT
                         !.body = [embeddings |-> [count |-> generation.embeddings,
                                                   inOrder |-> generation.inOrder,
                                                   ofLength |-> generation.ofLength],
                                   count |-> generation.embeddings,
                                   dimensions |-> expectedDimensions,
                                   model |-> "text-embedding-3-large"]]
    /\ pc' = "embeddings: responded"
    /\ UNCHANGED <<inputs, ranked, clustered, pcaResult, results, error, firstRun, home>>

\* the loop is over: if (embeddings.length !== descriptions.length)
EmbeddingsCountMismatch ==
    /\ pc = "embeddings: batches"
    /\ generation.i >= descriptionsLength
    /\ generation.embeddings # descriptionsLength
    /\ status' = 500
    /\ error' = CountError
    /\ generation' = [generation EXCEPT !.body = errorResponse(CountError)]
    /\ pc' = "embeddings: responded"
    /\ UNCHANGED <<inputs, ranked, clustered, pcaResult, results, firstRun, home>>

\* the loop is over: if (invalidEmbeddings.length > 0)
EmbeddingsOtherDimensions ==
    /\ pc = "embeddings: batches"
    /\ generation.i >= descriptionsLength
    /\ generation.embeddings = descriptionsLength
    /\ ~generation.ofLength
    /\ status' = 500
    /\ error' = DimensionsError
    /\ generation' = [generation EXCEPT !.body = errorResponse(DimensionsError)]
    /\ pc' = "embeddings: responded"
    /\ UNCHANGED <<inputs, ranked, clustered, pcaResult, results, firstRun, home>>

\* processData: if (!embeddingsResponse.ok) throw; the catch sets
\* processingError.  Otherwise Step 2 follows, the request to /api/analyze
ProcessDataFails ==
    /\ call = "processData"
    /\ pc = "embeddings: responded"
    /\ status # 200
    /\ pc' = "processingError"
    /\ UNCHANGED <<inputs, ranked, clustered, outcome, firstRun, generation, home>>

ProcessDataGoesOn ==
    /\ call = "processData"
    /\ pc = "embeddings: responded"
    /\ status = 200
    /\ pc' = "Step 2"
    /\ UNCHANGED <<inputs, ranked, clustered, outcome, firstRun, generation, home>>

NextEmbed ==
    \/ FetchEmbeddings
    \/ EmbeddingsRejects \/ EmbeddingsAccepts
    \/ EmbeddingsBatch \/ EmbeddingsBatchFails \/ EmbeddingsReturns
    \/ ProcessDataFails \/ ProcessDataGoesOn

SpecEmbed == InitEmbed /\ [][NextEmbed]_vars

\* The same with a service that may answer a batch with fewer embeddings than
\* descriptions, or with embeddings of another length
MaxServiceRows == 101

InitService ==
    /\ call = "processData"
    /\ \E n \in 0..MaxServiceRows, blank \in BOOLEAN :
         generation = NewGeneration(n, blank /\ n > 0)
    /\ embeddings = <<>>
    /\ identifiers = <<>>
    /\ labels = <<>>
    /\ config = [numDimensions |-> 40, numClusters |-> 2]
    /\ selectedDimensions = <<>>
    /\ Fresh

NextService ==
    \/ FetchEmbeddings
    \/ EmbeddingsRejects \/ EmbeddingsAccepts
    \/ EmbeddingsBatch \/ EmbeddingsBatchShort \/ EmbeddingsBatchOtherLength
    \/ EmbeddingsBatchFails
    \/ EmbeddingsReturns \/ EmbeddingsCountMismatch \/ EmbeddingsOtherDimensions
    \/ ProcessDataFails \/ ProcessDataGoesOn

SpecService == InitService /\ [][NextService]_vars

----------------------------------------------------------------------------
\* The two implementations on one input: performAnalysis, then POST
\* /api/analyze

InitBoth ==
    /\ call = "performAnalysis"
    /\ \E n \in {MaxRows - 1, MaxRows}, cols \in PipelineColumns :
        /\ embeddings = MatrixOf(cols, n)
        /\ \E m \in {n - 1, n} :
            /\ identifiers = SubSeq(RowIds, 1, m)
            /\ labels \in PipelineLabels(m)
    /\ \E nd \in 1..MaxDims, k \in 0..2 :
         config = [numDimensions |-> nd, numClusters |-> k]
    /\ selectedDimensions = <<>>
    /\ Untouched

\* with numDimensions >= 1 the selection of a ranker that returned is never
\* empty, and new Matrix never gets rows without columns
NextBoth ==
    \/ ValidateRejectsLengths \/ ValidateRejectsLabels \/ Validate
    \/ SelectDimensions \/ SelectDimensionsThrows
    \/ Standardize
    \/ KMeansThrows \/ KMeansInit \/ KMeansStep \/ KMeansReturn
    \/ Project \/ Assemble
    \/ RunOnServer

SpecBoth == InitBoth /\ [][NextBoth]_vars

-----------------------------------------------------------------------------
\* The wizard: the component Home of page.tsx. A handler sets state; React
\* renders, and after a render in which a dependency of the effect changed
\* (currentStep, processData, processingError, results) it calls the effect
\* before it handles the next event. The two requests of a processData call
\* are answered, in any order among the calls in flight, with ok or not.

MaxRuns == 3

Dependencies(h) == <<h.currentStep, h.processingError, h.results>>

\* the processData calls that await a response
InFlight == home.fetching.embeddings + home.fetching.analyze

InitHome ==
    /\ call = "Home"
    /\ embeddings = <<>>
    /\ identifiers = <<>>
    /\ labels = <<>>
    /\ config = [numDimensions |-> 40, numClusters |-> 2]
    /\ selectedDimensions = <<>>
    /\ generation = NoGeneration
    /\ NoRun
    /\ home = [currentStep |-> "upload", results |-> Null, processingError |-> Null,
               processingProgress |-> "Starting analysis...",
               fetching |-> [embeddings |-> 0, analyze |-> 0],
               effect |-> TRUE,         \* the effect of the first render
               request |-> "none",      \* of the last click on Start Analysis
               retried |-> FALSE]       \* Try Again was clicked

\* processData up to its first await: the state it sets, the request it sends
processData(h) ==
    [h EXCEPT !.processingError = Null,
              !.processingProgress = "Generating embeddings...",
              !.fetching.embeddings = @ + 1]

\* the state after a handler: the effect is due if a dependency changed
Render(next, newProcessData) ==
    /\ home' = [next EXCEPT !.effect = \/ newProcessData
                                       \/ Dependencies(next) # Dependencies(home)]
    /\ UNCHANGED <<inputs, pc, ranked, clustered, outcome, firstRun, generation>>

Handling == call = "Home" /\ ~home.effect

useEffect ==
    /\ call = "Home"
    /\ home.effect
    /\ IF /\ home.currentStep = "processing"
          /\ home.results = Null
          /\ home.processingError = Null
       THEN home' = [processData(home) EXCEPT
                        !.effect = FALSE,
                        !.request = IF @ = "pending" THEN "served" ELSE @]
       ELSE home' = [home EXCEPT !.effect = FALSE]
    /\ UNCHANGED <<inputs, pc, ranked, clustered, outcome, firstRun, generation>>

onDataUploaded ==
    /\ Handling
    /\ home.currentStep = "upload"
    /\ Render([home EXCEPT !.currentStep = "preview"], TRUE)

onColumnsSelected ==
    /\ Handling
    /\ home.currentStep = "preview"
    /\ \E newColumns \in BOOLEAN :
          Render([home EXCEPT !.currentStep = "labeling"], newColumns)

onLabelsComplete ==
    /\ Handling
    /\ home.currentStep = "labeling"
    /\ Render([home EXCEPT !.currentStep = "configuration"], TRUE)

onConfigChange ==
    /\ Handling
    /\ home.currentStep = "configuration"
    /\ Render(home, TRUE)

onStartProcessing ==
    /\ Handling
    /\ home.currentStep = "configuration"
    /\ InFlight + 1 <= MaxRuns
    /\ Render([home EXCEPT !.currentStep = "processing", !.request = "pending"], FALSE)

TryAgain ==
    /\ Handling
    /\ home.currentStep = "processing"
    /\ home.processingError # Null
    /\ InFlight + 2 <= MaxRuns
    /\ Render([processData([home EXCEPT !.processingError = Null,
                                        !.processingProgress = "Starting analysis..."])
                  EXCEPT !.retried = TRUE,
                         !.request = IF @ = "pending" THEN "aided" ELSE @], FALSE)

BackToConfiguration ==
    /\ Handling
    /\ home.currentStep = "processing"
    /\ home.processingError # Null
    /\ Render([home EXCEPT !.currentStep = "configuration"], FALSE)

onReset ==
    /\ Handling
    /\ home.currentStep = "results"
    /\ Render([home EXCEPT !.results = Null, !.currentStep = "upload"], TRUE)

\* the response of /api/embeddings is ok: processData sends the second request
EmbeddingsArrive ==
    /\ Handling
    /\ home.fetching.embeddings > 0
    /\ Render([home EXCEPT
                  !.fetching.embeddings = @ - 1,
                  !.fetching.analyze = @ + 1,
                  !.processingProgress =
                      "Performing statistical analysis and clustering..."], FALSE)

\* the response is not ok, or fetch rejects: the catch of processData
EmbeddingsFail ==
    /\ Handling
    /\ home.fetching.embeddings > 0
    /\ Render([home EXCEPT !.fetching.embeddings = @ - 1,
                           !.processingError = "message"], FALSE)

AnalysisArrives ==
    /\ Handling
    /\ home.fetching.analyze > 0
    /\ Render([home EXCEPT !.fetching.analyze = @ - 1,
                           !.results = "analysisResults",
                           !.currentStep = "results"], FALSE)

AnalysisFails ==
    /\ Handling
    /\ home.fetching.analyze > 0
    /\ Render([home EXCEPT !.fetching.analyze = @ - 1,
                           !.processingError = "message"], FALSE)

Responses == EmbeddingsArrive \/ EmbeddingsFail \/ AnalysisArrives \/ AnalysisFails

NextHome ==
    \/ useEffect
    \/ onDataUploaded \/ onColumnsSelected \/ onLabelsComplete \/ onConfigChange
    \/ onStartProcessing \/ TryAgain \/ BackToConfiguration \/ onReset
    \/ EmbeddingsArrive \/ EmbeddingsFail \/ AnalysisArrives \/ AnalysisFails

\* React calls a due effect, and every request is answered; the user need
\* not click
SpecHome ==
    /\ InitHome /\ [][NextHome]_vars
    /\ WF_vars(useEffect)
    /\ WF_vars(Responses)

----------------------------------------------------------------------------
\* The ranker on rows in up to three groups, so that a dimension has several
\* pairs of groups with a test of their own

MaxScoreRows == 6

ScorePatterns == PatternNames \cup {"step"}

\* the labellings of all n rows with "A", "B", "C", the labels named in the
\* order in which they first occur
ScoreLabelings(n) ==
    {lab \in [1..n -> {"A", "B", "C"}] :
        \A i \in 1..n :
            /\ lab[i] = "B" => \E j \in 1..(i - 1) : lab[j] = "A"
            /\ lab[i] = "C" => \E j \in 1..(i - 1) : lab[j] = "B"}

InitScore ==
    /\ call = "selectDiscriminativeDimensions"
    /\ \E d \in 1..MaxDims :
        /\ \E cols \in [1..d -> ScorePatterns] : embeddings = MatrixOf(cols, MaxScoreRows)
        /\ config = [numDimensions |-> d, numClusters |-> 2]
    /\ identifiers = SubSeq(RowIds, 1, MaxScoreRows)
    /\ \E lab \in ScoreLabelings(MaxScoreRows) : labels = LabelMap(lab)
    /\ selectedDimensions = <<>>
    /\ Untouched

SpecScore == InitScore /\ [][NextRank]_vars

----------------------------------------------------------------------------
\* The claims

\* what the formulas read off the inputs, without the operators above
Rows == 1..Len(embeddings)
Columns == IF Len(embeddings) = 0 THEN 0 ELSE Len(embeddings[1])
LabelValues == {labels[key] : key \in DOMAIN labels}
\* the rows whose identifier carries the label
RowsLabelled(label) ==
    {r \in 1..Len(identifiers) : Lookup(labels, identifiers[r]) = label}
GroupLabels == {label \in LabelValues : label # "" /\ RowsLabelled(label) # {}}
LabelledRows == UNION {RowsLabelled(label) : label \in GroupLabels}

\* C1: with fewer than 2 distinct label values in labels, a ranker that was
\* run has thrown 'Need at least 2 labeled groups ...', and the pipeline holds
\* no standardized matrix, clustering, projection or results object
C1_FewLabelsFail ==
    Cardinality(LabelValues) < 2 =>
        /\ (Finished /\ status # 400) => error = NeedGroups
        /\ pc \in {"start", "validated", "threw", "responded"}
        /\ standardized = Nothing
        /\ clusteringResult = Nothing
        /\ pcaResult = Nothing
        /\ results = Nothing

C1_Witness ==
    /\ Cardinality(LabelValues) < 2
    /\ Cardinality(DOMAIN labels) >= 2
    /\ Len(embeddings) >= 2
    /\ error = NeedGroups
    /\ status = 500

\* C2: when the ranker returns for a matrix with D >= 1 and at least 2
\* labelled groups of at least 2 members each, it returns exactly
\* min(numDimensions, D) entries, every p-value in [0, 1], in non-decreasing
\* p-value order (the claim as stated, for every requested numDimensions)
C2_Precondition ==
    /\ pc = "returned"
    /\ Columns >= 1
    /\ Cardinality(GroupLabels) >= 2
    /\ \A label \in GroupLabels : Cardinality(RowsLabelled(label)) >= 2

PValuesSorted(stats) ==
    /\ \A i \in 1..Len(stats) : PInUnit(stats[i].pValue)
    /\ \A i, j \in 1..Len(stats) : i < j => ~PLess(stats[j].pValue, stats[i].pValue)

C2_ExactlyMinEntries ==
    C2_Precondition =>
        /\ Len(dimensionStats) = Min(config.numDimensions, Columns)
        /\ PValuesSorted(dimensionStats)

\* the same for the requests numDimensions >= 0
C2_NonNegativeRequests ==
    (C2_Precondition /\ config.numDimensions >= 0) =>
        /\ Len(dimensionStats) = Min(config.numDimensions, Columns)
        /\ Len(selectedDimensions) = Len(dimensionStats)
        /\ PValuesSorted(dimensionStats)

\* C3: a pair of groups of which one has fewer than 2 rows is tested like
\* every other pair, in every dimension, and its testResult is the
\* placeholder p-value 1, statistic 0; a dimension all of whose pairs are
\* such pairs is scored p-value 1, statistic 0
SmallPair(a, b) ==
    Cardinality(RowsLabelled(a)) < 2 \/ Cardinality(RowsLabelled(b)) < 2

C3_SmallPairsArePlaceholders ==
    pc = "returned" =>
        LET keys == groupKeys(identifiers, labels)
        IN  \A d \in 1..Columns :
              /\ \A a, b \in GroupLabels :
                   (a # b /\ SmallPair(a, b)) =>
                      \E k \in 1..Len(rankTrace.testLog[d]) :
                         LET t == rankTrace.testLog[d][k]
                         IN  /\ {keys[t.i + 1], keys[t.j + 1]} = {a, b}
                             /\ t.testResult.pValue = OneP
                             /\ t.testResult.statistic = ZeroStat
              /\ 2 * Len(rankTrace.testLog[d]) =
                    Cardinality(GroupLabels) * (Cardinality(GroupLabels) - 1)
              /\ (\A a, b \in GroupLabels : a # b => SmallPair(a, b)) =>
                    \A k \in 1..Len(rankTrace.sorted) :
                       /\ rankTrace.sorted[k].pValue = OneP
                       /\ rankTrace.sorted[k].statistic = ZeroStat

C3_Witness ==
    /\ pc = "returned"
    /\ Columns >= 1
    /\ Cardinality(GroupLabels) = 3
    /\ \E a, b \in GroupLabels :
         /\ Cardinality(RowsLabelled(a)) = 1
         /\ Cardinality(RowsLabelled(b)) >= 2
         /\ \E r \in RowsLabelled(a), q \in RowsLabelled(b) :
               embeddings[r][1] # embeddings[q][1]
    /\ \A k \in 1..Len(rankTrace.sorted) : rankTrace.sorted[k].pValue = OneP

\* C4: a dimension with one value in all labelled rows has p-value 1, and is
\* ranked behind every dimension with a p-value below 1
ConstantDimension(d) ==
    \A r, q \in LabelledRows : embeddings[r][d + 1] = embeddings[q][d + 1]
PositionOf(stats, d) == CHOOSE k \in 1..Len(stats) : stats[k].dimension = d

C4_ConstantDimensionsLast ==
    pc = "returned" =>
        \A d \in 0..(Columns - 1) :
            ConstantDimension(d) =>
                /\ rankTrace.sorted[PositionOf(rankTrace.sorted, d)].pValue = OneP
                /\ \A k \in 1..Len(rankTrace.sorted) :
                      PLess(rankTrace.sorted[k].pValue, OneP) =>
                          /\ k < PositionOf(rankTrace.sorted, d)
                          /\ \A m \in 1..Len(dimensionStats) :
                                dimensionStats[m].dimension = d =>
                                   \E n \in 1..(m - 1) :
                                      dimensionStats[n] = rankTrace.sorted[k]

C4_Witness ==
    /\ pc = "returned"
    /\ \E d, e \in 0..(Columns - 1) :
          /\ d < e
          /\ ConstantDimension(d)
          /\ \E k \in 1..Len(dimensionStats) :
                /\ dimensionStats[k].dimension = e
                /\ PLess(dimensionStats[k].pValue, OneP)
          /\ \E k \in 1..Len(dimensionStats) : dimensionStats[k].dimension = d

\* column c of the matrix performClustering reduces the embeddings to
ReducedColumn(c) == [r \in Rows |-> embeddings[r][selectedDimensions[c] + 1]]
ConstantColumn(c) == \A r, q \in Rows : ReducedColumn(c)[r] = ReducedColumn(c)[q]
\* z = num / sqrt(den2) is the integer v
ValueIs(z, v) ==
    /\ Sgn(z.num[1]) = Sgn(v)
    /\ z.num[1] * z.num[1] * z.den2[2] = v * v * z.den2[1] * z.num[2] * z.num[2]

C6_ZScoreWithBessel ==
    standardized # Nothing =>
        \A c \in 1..Len(selectedDimensions) :
            LET col == ReducedColumn(c)
                N == Len(embeddings)
                S == SumSeq(col)
                Q == SumSeq([r \in Rows |-> col[r] * col[r]])
            IN  /\ ~ConstantColumn(c) =>
                      /\ standardized.means[c] = Rat(S, N)
                      /\ standardized.stds[c] =
                            [nan |-> FALSE, sq |-> Rat(N * Q - S * S, N * (N - 1))]
                      /\ \A r \in Rows :
                            standardized.data[r][c] =
                               [num |-> Rat(N * col[r] - S, N),
                                den2 |-> Rat(N * Q - S * S, N * (N - 1))]
                /\ col = <<1, 2, 3, 4, 5>> =>
                      /\ standardized.means[c] = <<3, 1>>
                      /\ standardized.stds[c].sq = <<5, 2>>
                      /\ \A r \in Rows :
                            standardized.data[r][c] =
                               [num |-> <<r - 3, 1>>, den2 |-> <<5, 2>>]

C6_Witness ==
    /\ standardized # Nothing
    /\ Len(selectedDimensions) = 1
    /\ ReducedColumn(1) = <<1, 2, 3, 4, 5>>
    /\ standardized.data[1][1] = [num |-> <<-2, 1>>, den2 |-> <<5, 2>>]

\* C7: with k <= 0 or k > N the call ends with the Error of kmeans, and at no
\* point are there centres, assignments or a clustering result
C7_BadKRejected ==
    (config.numClusters <= 0 \/ config.numClusters > Len(embeddings)) =>
        /\ loop = NoLoop
        /\ clusteringResult = Nothing
        /\ pc \in {"start", "standardized", "threw"}
        /\ pc = "threw" => error = KError

C7_Witness ==
    /\ pc = "threw"
    /\ error = KError
    /\ config.numClusters > Len(embeddings)

\* C8: a clustering that succeeded has one cluster id per row, each an
\* integer of 0..K-1, and so has the clusterAssignments of the results
ValidAssignments(clusters) ==
    /\ Len(clusters) = Len(embeddings)
    /\ \A r \in 1..Len(clusters) : clusters[r] \in 0..(config.numClusters - 1)

C8_AssignmentsInRange ==
    /\ clusteringResult # Nothing => ValidAssignments(clusteringResult.clusters)
    /\ results # Nothing => ValidAssignments(results.clusterAssignments)

C8_Witness ==
    /\ results # Nothing
    /\ config.numClusters = 2
    /\ Len(embeddings) = 4
    /\ \A c \in 0..1 : \E r, q \in Rows :
          /\ r # q
          /\ results.clusterAssignments[r] = c
          /\ results.clusterAssignments[q] = c

\* the one column of the matrix, and the split of its rows into two blobs:
\* the rows up to a value and the rows above it, the gap between the two
\* more than `times` the spread of the values within either
Value(r) == embeddings[r][1]
RowsUpTo(t) == {r \in Rows : Value(r) <= t}
Smallest(rows) == CHOOSE v \in {Value(r) : r \in rows} : \A r \in rows : v <= Value(r)
Largest(rows) == CHOOSE v \in {Value(r) : r \in rows} : \A r \in rows : v >= Value(r)
BlobSplit(low, times) ==
    LET high == Rows \ low
    IN  /\ low # {}
        /\ high # {}
        /\ Smallest(high) - Largest(low) > times * (Largest(low) - Smallest(low))
        /\ Smallest(high) - Largest(low) > times * (Largest(high) - Smallest(high))
SeparatedBy(times) == \E r \in Rows : BlobSplit(RowsUpTo(Value(r)), times)
\* the lower blob of the one split there is, if any, with a gap larger than
\* the spreads
LowBlob == RowsUpTo(Value(CHOOSE r \in Rows : BlobSplit(RowsUpTo(Value(r)), 1)))
\* two rows share a cluster exactly when they share a blob
RecoversBlobs(clusters) ==
    /\ Len(clusters) = Len(embeddings)
    /\ \A r, q \in Rows :
          (clusters[r] = clusters[q]) <=> ((r \in LowBlob) <=> (q \in LowBlob))
TwoBlobsReturned(times) ==
    /\ pc = "returned"
    /\ Columns = 1
    /\ config.numClusters = 2
    /\ SeparatedBy(times)
\* random() drew one row of each blob
SplitInitial ==
    /\ Len(loop.initial) = 2
    /\ ((loop.initial[1] + 1) \in LowBlob) # ((loop.initial[2] + 1) \in LowBlob)

\* C9 (as stated): on one column of 2 well-separated blobs with K = 2, kmeans
\* returns, whichever rows were drawn as the first centers, converged within
\* the 100 iterations and with the two blobs as its two clusters.  Blobs
\* count as well-separated here when the gap between them is more than 3
\* times the spread within either
C9_EveryInitialRecoversBlobs ==
    TwoBlobsReturned(3) =>
        /\ loop.converged
        /\ loop.stepNumber <= MaxIterations
        /\ RecoversBlobs(clusteringResult.clusters)

\* C9 (amended): when the first centers are one row of each blob, every
\* assignment of the loop is the two blobs, and kmeans returns them converged
\* after at most 2 of the 100 iterations; for this a gap larger than the
\* spread within either blob is separation enough
C9_SplitInitialRecoversBlobs ==
    (Columns = 1 /\ config.numClusters = 2 /\ SeparatedBy(1) /\ SplitInitial) =>
        /\ loop.stepNumber >= 1 => RecoversBlobs(loop.clusterID)
        /\ loop.stepNumber <= 2
        /\ pc = "returned" =>
              /\ loop.converged
              /\ RecoversBlobs(clusteringResult.clusters)

C9_Witness ==
    /\ TwoBlobsReturned(3)
    /\ SplitInitial
    /\ Cardinality(LowBlob) >= 3
    /\ \E r, q \in LowBlob : Value(r) # Value(q)
    /\ Cardinality(Rows \ LowBlob) = 1
    /\ loop.stepNumber = 2
    /\ RecoversBlobs(clusteringResult.clusters)

\* C10: performClustering(embeddings, selectedDimensions, numClusters) takes
\* no seed, so two calls of a caller that holds one seed differ in nothing it
\* can pass; the claim is that two such calls that return have returned the
\* same clusters and the same centroids
C10_SameSeedSameClustering ==
    (firstRun # Nothing /\ firstRun.pc = "returned" /\ pc = "returned") =>
        /\ clusteringResult.clusters = firstRun.clusteringResult.clusters
        /\ clusteringResult.centroids = firstRun.clusteringResult.centroids

C12_DegenerateFallback ==
    (call \in Projectors /\ (Len(embeddings) = 0 \/ Columns = 0)) =>
        /\ pc # "threw"
        /\ pc = "returned" =>
              /\ Len(pcaResult.projectedData) = Len(embeddings)
              /\ \A r \in Rows :
                    pcaResult.projectedData[r] =
                       <<[k |-> "rat", v |-> <<r - 1, 1>>], [k |-> "rat", v |-> <<0, 1>>]>>
              /\ pcaResult.explainedVariance =
                    <<[k |-> "rat", v |-> <<1, 1>>], [k |-> "rat", v |-> <<0, 1>>]>>

C12_Witness ==
    /\ call = "performPCA"
    /\ pc = "returned"
    /\ Len(embeddings) = 3
    /\ Columns = 0
    /\ Len(pcaResult.projectedData) = 3

\* C13: when embeddings and identifiers differ in length, no ranking, no
\* standardization, no clustering and no projection comes about and no
\* results object is built, and the call ends with an error
C13_MismatchedLengthsRejected ==
    Len(embeddings) # Len(identifiers) =>
        /\ pc \in {"start", "threw", "responded"}
        /\ rankTrace = Nothing
        /\ standardized = Nothing
        /\ loop = NoLoop
        /\ pcaResult = Nothing
        /\ results = Nothing
        /\ Finished => error # NoError

\* the same for the requests of POST alone, which are answered with status 400
C13_PostRejectsLengths ==
    (call = "POST" /\ Len(embeddings) # Len(identifiers)) =>
        /\ pc \in {"start", "responded"}
        /\ rankTrace = Nothing
        /\ standardized = Nothing
        /\ loop = NoLoop
        /\ pcaResult = Nothing
        /\ results = Nothing
        /\ Finished => (status = 400 /\ error = LengthError)

\* C14: a call whose numDimensions or numClusters is not positive builds no
\* results object, and ends with an error
C14_NonPositiveConfigRejected ==
    (config.numDimensions <= 0 \/ config.numClusters <= 0) =>
        /\ results = Nothing
        /\ Finished => error # NoError

\* the same for numClusters alone: the kmeans of the library rejects it
C14_NonPositiveClustersRejected ==
    config.numClusters <= 0 =>
        /\ results = Nothing
        /\ Finished => error # NoError

\* C15: from a matrix whose rows do not all have the same length the
\* pipeline builds no results object, and the call ends with an error
RowsDiffer == \E r, q \in Rows : Len(embeddings[r]) # Len(embeddings[q])

C15_RaggedMatrixRejected ==
    RowsDiffer =>
        /\ results = Nothing
        /\ Finished => error # NoError

\* the same for the calls that are in order otherwise: an identifier per row,
\* numDimensions of 1..D and numClusters of 1..N
C15_RaggedAloneRejected ==
    (/\ RowsDiffer
     /\ Len(identifiers) = Len(embeddings)
     /\ config.numDimensions \in 1..Columns
     /\ config.numClusters \in 1..Len(embeddings)) =>
        /\ results = Nothing
        /\ Finished => error # NoError

\* C16: an Error of kmeans or of the singular value decomposition reaches the
\* caller caught and wrapped, in a report that names the step that failed,
\* the clustering or the projection
FailedStage ==
    IF error = KError THEN "clustering"
    ELSE IF error = RangeErrorColumn THEN "projection"
    ELSE ""

C16_FailuresWrappedWithStage ==
    (Finished /\ FailedStage # "") =>
        /\ failureReported.caught
        /\ failureReported.stage = FailedStage

\* C17 (as stated): with an identifier per row, D >= numDimensions,
\* 1 <= numClusters <= N and at least 2 distinct label values in the label
\* map, a call that has ended has returned a results object with exactly
\* numDimensions selected dimensions and N cluster assignments
C17_TwoLabelValuesSucceed ==
    (/\ Len(identifiers) = Len(embeddings)
     /\ Columns >= config.numDimensions
     /\ config.numClusters \in 1..Len(embeddings)
     /\ Cardinality(LabelValues) >= 2
     /\ Finished) =>
        /\ results # Nothing
        /\ Len(results.statistics.selectedDimensions) = config.numDimensions
        /\ Len(results.clusterAssignments) = Len(embeddings)

\* C17 (amended): with an identifier per row, 1 <= numDimensions <= D and
\* 1 <= numClusters <= N, a call whose identifiers carry at least 2 distinct
\* non-empty labels never fails, comes to the projection with a matrix whose
\* decomposition has the 2 columns performPCA reads, and at its end has
\* returned a results object with exactly numDimensions distinct
\* selected dimensions and N cluster assignments; a call that failed had
\* fewer than 2 such labels and failed with the error of the label check of
\* POST or of the ranker
ShapeInOrder ==
    /\ Len(identifiers) = Len(embeddings)
    /\ config.numDimensions \in 1..Columns
    /\ config.numClusters \in 1..Len(embeddings)

C17_TwoLabelledGroupsSucceed ==
    ShapeInOrder =>
        /\ Cardinality(GroupLabels) >= 2 =>
              /\ error = NoError
              /\ status \in {0, 200}
              /\ pc # "threw"
              /\ pc = "clustered" =>
                    (call = "POST" \/ Len(embeddings) >= 2 \/ config.numDimensions < 2)
              /\ Finished =>
                    /\ results # Nothing
                    /\ Len(results.statistics.selectedDimensions) = config.numDimensions
                    /\ \A i, j \in 1..config.numDimensions :
                          /\ results.statistics.selectedDimensions[i] \in 0..(Columns - 1)
                          /\ i # j => results.statistics.selectedDimensions[i] #
                                       results.statistics.selectedDimensions[j]
                    /\ Len(results.clusterAssignments) = Len(embeddings)
        /\ (Finished /\ results = Nothing) =>
              /\ Cardinality(GroupLabels) < 2
              /\ error \in {NeedGroups, LabelsError}

C17_Witness ==
    /\ ShapeInOrder
    /\ results # Nothing
    /\ Len(embeddings) = 4
    /\ Cardinality(GroupLabels) = 2
    /\ Cardinality(LabelledRows) < 4
    /\ config = [numDimensions |-> 2, numClusters |-> 2]
    /\ Len(results.statistics.selectedDimensions) = 2
    /\ Len(results.clusterAssignments) = 4

\* C18: every request processData sends to /api/embeddings carries at most
\* 100 descriptions, and POST /api/embeddings takes up no request of more
\* than 200
C18_ChunkedRequests ==
    generation # NoGeneration =>
        /\ \A f \in 1..Len(generation.fetches) :
              generation.fetches[f].descriptions <= 100
        /\ (pc = "embeddings: batches" \/ status = 200) =>
              generation.fetches[Len(generation.fetches)].descriptions <= 200

\* the second half alone, as any client may send any request: POST
\* /api/embeddings takes up no request of more than 200 descriptions
C18_EndpointAcceptsAtMost200 ==
    (generation # NoGeneration /\ (pc = "embeddings: batches" \/ status = 200)) =>
        generation.fetches[Len(generation.fetches)].descriptions <= 200

\* C19 (as stated): the score recorded for a dimension is the (p-value,
\* |t-statistic|) of a pair of groups that no pair has a smaller p-value than,
\* the first such pair in the order of the loops.
PairScore(test) ==
    [pValue |-> test.testResult.pValue, statistic |-> MathAbs(test.testResult.statistic)]
Recorded(entry) == [pValue |-> entry.pValue, statistic |-> entry.statistic]
TestsOf(entry) == rankTrace.testLog[entry.dimension + 1]

C19_ScoreOfSmallestPair ==
    (call = "selectDiscriminativeDimensions" /\ pc = "returned") =>
        \A e \in 1..Len(rankTrace.sorted) :
            LET tests == TestsOf(rankTrace.sorted[e])
            IN  \E k \in 1..Len(tests) :
                    /\ \A m \in 1..Len(tests) :
                           ~PLess(tests[m].testResult.pValue, tests[k].testResult.pValue)
                    /\ \A m \in 1..(k - 1) :
                           tests[m].testResult.pValue # tests[k].testResult.pValue
                    /\ Recorded(rankTrace.sorted[e]) = PairScore(tests[k])

\* C19 (amended): the score recorded for a dimension is the (p-value,
\* |t-statistic|) of the pair with the smallest p-value among the pairs whose
\* test gave a p-value below 1, the first such pair in the order of the loops;
\* it is (1, 0) when no pair has a p-value below 1 (every test gave 1, or
\* NaN, or was replaced by the placeholder).
BelowOne(tests) == {k \in 1..Len(tests) : PLess(tests[k].testResult.pValue, OneP)}
FirstSmallest(tests) ==
    CHOOSE k \in BelowOne(tests) :
        /\ \A m \in BelowOne(tests) :
               ~PLess(tests[m].testResult.pValue, tests[k].testResult.pValue)
        /\ \A m \in BelowOne(tests) :
               m < k => PLess(tests[k].testResult.pValue, tests[m].testResult.pValue)

C19_ScoreOfSmallestPairBelowOne ==
    (call = "selectDiscriminativeDimensions" /\ pc = "returned") =>
        \A e \in 1..Len(rankTrace.sorted) :
            LET tests == TestsOf(rankTrace.sorted[e])
            IN  IF BelowOne(tests) = {}
                THEN Recorded(rankTrace.sorted[e]) = [pValue |-> OneP, statistic |-> ZeroStat]
                ELSE Recorded(rankTrace.sorted[e]) = PairScore(tests[FirstSmallest(tests)])

\* a dimension with three tested pairs whose smallest p-value is not that of
\* the first pair and comes with a negative t-statistic, and a dimension of
\* which no pair has a p-value below 1 although one was tested (NaN)
C19_Witness ==
    /\ call = "selectDiscriminativeDimensions" /\ pc = "returned"
    /\ \E e \in 1..Len(rankTrace.sorted) :
          LET tests == TestsOf(rankTrace.sorted[e])
          IN  /\ Cardinality(BelowOne(tests)) = 3
              /\ FirstSmallest(tests) > 1
              /\ tests[FirstSmallest(tests)].testResult.statistic.sgn = -1
              /\ rankTrace.sorted[e].statistic.sgn = 1
    /\ \E e \in 1..Len(rankTrace.sorted) :
          LET tests == TestsOf(rankTrace.sorted[e])
          IN  /\ BelowOne(tests) = {}
              /\ \E k \in 1..Len(tests) : tests[k].testResult.pValue.nan
              /\ rankTrace.sorted[e].pValue = OneP

\* C20: the ranking holds every dimension once, by ascending p-value, two
\* dimensions with the same p-value by increasing dimension index, and the
\* selection is the first min(numDimensions, D) entries of it (the claim as
\* stated, for every requested numDimensions)
StableAscending(stats) ==
    \A i, j \in 1..Len(stats) :
        i < j => \/ PLess(stats[i].pValue, stats[j].pValue)
                 \/ /\ stats[i].pValue = stats[j].pValue
                    /\ stats[i].dimension < stats[j].dimension

RanksEveryDimension(stats) ==
    /\ Len(stats) = Columns
    /\ {stats[i].dimension : i \in 1..Len(stats)} = 0..(Columns - 1)

FirstOf(stats, count) ==
    /\ Len(dimensionStats) = count
    /\ \A i \in 1..Len(dimensionStats) : i <= Len(stats) /\ dimensionStats[i] = stats[i]
    /\ selectedDimensions = [i \in 1..Len(dimensionStats) |-> dimensionStats[i].dimension]

C20_StableSortAndSelection ==
    (call = "selectDiscriminativeDimensions" /\ pc = "returned") =>
        /\ RanksEveryDimension(rankTrace.sorted)
        /\ StableAscending(rankTrace.sorted)
        /\ FirstOf(rankTrace.sorted, Min(config.numDimensions, Columns))

\* the same for the requests numDimensions >= 0
C20_NonNegativeSelections ==
    (call = "selectDiscriminativeDimensions" /\ pc = "returned"
        /\ config.numDimensions >= 0) =>
        /\ RanksEveryDimension(rankTrace.sorted)
        /\ StableAscending(rankTrace.sorted)
        /\ FirstOf(rankTrace.sorted, Min(config.numDimensions, Columns))

\* for every request, the ranking is stable and ascending, and the selection
\* is what slice(0, numDimensions) takes of it
C20_StableSortAndSlice ==
    (call = "selectDiscriminativeDimensions" /\ pc = "returned") =>
        /\ RanksEveryDimension(rankTrace.sorted)
        /\ StableAscending(rankTrace.sorted)
        /\ FirstOf(rankTrace.sorted,
                   IF config.numDimensions < 0
                   THEN Max(Columns + config.numDimensions, 0)
                   ELSE Min(config.numDimensions, Columns))

\* C21: kmeans ends: a call that entered the loop returns, no loop takes more
\* than 100 steps, and after a step that left every row in the cluster the
\* step before had put it in, the loop has converged and takes no further step
SameAssignments ==
    /\ pc = "kmeans"
    /\ loop.stepNumber >= 1
    /\ loop'.stepNumber = loop.stepNumber + 1
    /\ loop'.clusterID = loop.clusterID

C21_KMeansTerminates ==
    /\ [](loop.stepNumber <= MaxIterations)
    /\ [][SameAssignments => loop'.converged]_vars
    /\ [][(pc = "kmeans" /\ loop.converged) => (pc' = "returned" /\ loop' = loop)]_vars
    /\ (pc = "standardized") ~> (pc \in {"returned", "threw"})

\* a call that returned after 3 steps or more, with the assignments its centres
\* give once more
C21_Witness ==
    /\ call = "performClustering" /\ pc = "returned"
    /\ loop.converged
    /\ loop.stepNumber >= 3
    /\ clusteringResult.clusters = updateClusterID(standardized.data, loop.centers)

\* C22: from a matrix with at least one row and one column in every row, the
\* projector returns for row i the point (the value of the row, or 0 when it
\* is falsy; i * 0.1), and explainedVariance [1.0, 0.0]
SingleColumn ==
    /\ Len(projectorData) >= 1
    /\ \A r \in 1..Len(projectorData) : Len(projectorData[r]) = 1

ValueOrZero(z) == IF z.num[1] = 0 THEN Plain(0, 1) ELSE Entry(z)
CoordinateIs(c, want) == c.k = want.k /\ c.v = want.v

JitteredPoints ==
    /\ Len(pcaResult.projectedData) = Len(projectorData)
    /\ \A r \in 1..Len(projectorData) :
          /\ CoordinateIs(pcaResult.projectedData[r][1], ValueOrZero(projectorData[r][1]))
          /\ CoordinateIs(pcaResult.projectedData[r][2], Plain(r - 1, 10))
    /\ CoordinateIs(pcaResult.explainedVariance[1], Plain(1, 1))
    /\ CoordinateIs(pcaResult.explainedVariance[2], Plain(0, 1))

C22_SingleColumnPoints ==
    (pcaResult # Nothing /\ SingleColumn) => JitteredPoints

\* the same for the projector of analysis.ts alone
C22_ClientSingleColumnPoints ==
    (pcaResult # Nothing /\ SingleColumn /\ call \in {"performAnalysis", "performPCA"}) =>
        JitteredPoints

\* C23: from a matrix with 2 columns or more, the projector of analysis.ts
\* returns for row i the point (U[i][0], U[i][1]) of the left singular
\* vectors of the matrix with every column centred, as they are (not
\* multiplied by the singular values)
MainPath ==
    /\ pcaResult # Nothing
    /\ call \in {"performAnalysis", "performPCA"}
    /\ Len(projectorData) >= 1
    /\ Len(projectorData[1]) >= 2

\* every column of centred sums to 0, and two entries of a column differ as
\* they do in matrix
ColumnCentred(centred, matrix) ==
    /\ Len(centred) = Len(matrix)
    /\ \A r \in 1..Len(matrix) : Len(centred[r]) = Len(matrix[r])
    /\ \A c \in 1..Len(matrix[1]) :
          /\ RSum([r \in 1..Len(matrix) |-> centred[r][c].num]) = <<0, 1>>
          /\ \A r, q \in 1..Len(matrix) :
                /\ centred[r][c].den2 = matrix[r][c].den2
                /\ RSub(centred[r][c].num, centred[q][c].num)
                       = RSub(matrix[r][c].num, matrix[q][c].num)

ProjectedWide ==
    /\ pcaResult # Nothing
    /\ Len(projectorData) >= 1
    /\ Len(projectorData[1]) >= 2

\* the sum over the columns of (sum of squares - square of the sum / N), over
\* N - 1: the sum of the sample variances of the columns
SumOfColumnVariances(matrix) ==
    LET N == Len(matrix)
        column(c) == [r \in 1..N |-> matrix[r][c].num]
        squares(c) == RSum([r \in 1..N |-> RMul(column(c)[r], column(c)[r])])
        spread(c) == RSub(squares(c),
                          RDiv(RMul(RSum(column(c)), RSum(column(c))), RInt(N)))
    IN  RDiv(RSum([c \in 1..Len(matrix[1]) |-> RDiv(spread(c), matrix[1][c].den2)]),
             RInt(N - 1))

Reported ==
    IF call \in Pipelines THEN results.visualization.totalVarianceExplained
    ELSE pcaResult.totalVariance

InUnit(x) ==
    \/ x.k = "eigenvalue share"
    \/ x.k = "rat" /\ x.v[2] > 0 /\ 0 <= x.v[1] /\ x.v[1] <= x.v[2]

SharesOfEigenvalues ==
    /\ pcaResult.branch = "svd"
    /\ pcaResult.sumOfEigenvalues = SumOfColumnVariances(projectorData)
    /\ pcaResult.singularValues = Min(Len(projectorData) + 1, Len(projectorData[1]))
    /\ \A i \in {0, 1} :
          pcaResult.explainedVariance[i + 1] = [k |-> "eigenvalue share", i |-> i]
    /\ Reported = pcaResult.totalVariance
    /\ InUnit(Reported)
    /\ pcaResult.singularValues = 2 => Reported = Plain(1, 1)

C24_VarianceShares ==
    (ProjectedWide /\ (call \in Pipelines => results # Nothing)) => SharesOfEigenvalues

\* the same for the projector of analysis.ts alone
C24_ClientVarianceShares ==
    (MainPath /\ (call \in Pipelines => results # Nothing)) => SharesOfEigenvalues

\* the same for the projector of analysis.ts, on a matrix of which a column
\* varies
C24_ClientSharesOfVaryingColumns ==
    (/\ MainPath /\ (call \in Pipelines => results # Nothing)
     /\ SumOfColumnVariances(projectorData)[1] # 0) => SharesOfEigenvalues

\* C25: an assembled result has one point per row, with the identifier, the
\* cluster and the label (or null) of the row; one cluster per id in
\* 0..numClusters-1, whose items are the rows assigned to it, in the order of
\* the rows, and whose size is their number; the sizes sum to N
LabelOf(id) ==
    IF id \in DOMAIN labels /\ labels[id] # "" THEN labels[id] ELSE Null

RowsAssigned(assignments, c) ==
    SelectSeq([r \in 1..Len(assignments) |-> r], LAMBDA r : assignments[r] = c)

PointsOfRows ==
    LET points == results.visualization.points
        assignments == results.clusterAssignments
    IN  /\ Len(points) = Len(embeddings)
        /\ Len(assignments) = Len(embeddings)
        /\ \A i \in 1..Len(points) :
              /\ i <= Len(identifiers)
              /\ points[i].identifier = identifiers[i]
              /\ points[i].cluster = assignments[i]
              /\ points[i].label = LabelOf(identifiers[i])

ClustersOfRows ==
    LET assignments == results.clusterAssignments
        clusters == results.clusters
    IN  /\ Len(clusters) = config.numClusters
        /\ \A r \in 1..Len(assignments) : assignments[r] \in 0..(config.numClusters - 1)
        /\ \A c \in 1..Len(clusters) :
              LET rows == RowsAssigned(assignments, c - 1)
              IN  /\ clusters[c].id = c - 1
                  /\ clusters[c].size = Len(clusters[c].items)
                  /\ Len(clusters[c].items) = Len(rows)
                  /\ \A m \in 1..Len(rows) :
                        clusters[c].items[m] =
                            [identifier |-> identifiers[rows[m]],
                             label |-> LabelOf(identifiers[rows[m]])]
        /\ SumSeq([c \in 1..Len(clusters) |-> clusters[c].size]) = Len(embeddings)

C25_AssembledResultConsistent ==
    results # Nothing => (PointsOfRows /\ ClustersOfRows)

\* the same for the calls with one identifier per row
C25_ConsistentWithOneIdentifierPerRow ==
    (results # Nothing /\ Len(identifiers) = Len(embeddings)) =>
        (PointsOfRows /\ ClustersOfRows)

\* C26: on one input, and with the same rows drawn by kmeans, POST
\* /api/analyze and performAnalysis return the same selectedDimensions,
\* dimensionStats, standardized data, clusterAssignments and clusters, and
\* neither returns a result where the other returns none
BothRan == call = "POST" /\ firstRun # Nothing /\ Finished

SameDraw == loop.initial = firstRun.loop.initial

SameButProjection ==
    /\ results.statistics = firstRun.results.statistics
    /\ dimensionStats = firstRun.dimensionStats
    /\ selectedDimensions = firstRun.selectedDimensions
    /\ standardized = firstRun.standardized
    /\ results.clusterAssignments = firstRun.results.clusterAssignments
    /\ results.clusters = firstRun.results.clusters
    /\ Len(results.visualization.points) = Len(firstRun.results.visualization.points)
    /\ \A i \in 1..Len(results.visualization.points) :
          LET here == results.visualization.points[i]
              there == firstRun.results.visualization.points[i]
          IN  /\ here.identifier = there.identifier
              /\ here.cluster = there.cluster
              /\ here.label = there.label

C26_ImplementationsAgree ==
    BothRan =>
        /\ (results = Nothing) <=> (firstRun.results = Nothing)
        /\ (results # Nothing /\ firstRun.results # Nothing /\ SameDraw) => SameButProjection

\* the same for the inputs with one identifier per row
C26_AgreeWithOneIdentifierPerRow ==
    (BothRan /\ Len(identifiers) = Len(embeddings)) =>
        /\ (results = Nothing) <=> (firstRun.results = Nothing)
        /\ (results # Nothing /\ firstRun.results # Nothing /\ SameDraw) => SameButProjection

\* C27: when there are at least 2 groups and every group has exactly one
\* labelled row, the ranker records p-value 1 and statistic 0 for every
\* dimension and selects the dimensions 0 .. min(numDimensions, D) - 1 in
\* index order, whatever the values of the embeddings
OneExampleEach ==
    /\ Cardinality(GroupLabels) >= 2
    /\ \A label \in GroupLabels : Cardinality(RowsLabelled(label)) = 1

AllScoredOne ==
    /\ Len(rankTrace.sorted) = Columns
    /\ \A e \in 1..Columns :
          /\ rankTrace.sorted[e].dimension = e - 1
          /\ rankTrace.sorted[e].pValue = OneP
          /\ rankTrace.sorted[e].statistic = ZeroStat

FirstIndices(count) ==
    /\ selectedDimensions = [i \in 1..count |-> i - 1]
    /\ Len(dimensionStats) = count
    /\ \A i \in 1..count : dimensionStats[i] = rankTrace.sorted[i]

C27_SingleExamplesSelectFirstIndices ==
    (call = "selectDiscriminativeDimensions" /\ pc = "returned" /\ OneExampleEach) =>
        /\ AllScoredOne
        /\ FirstIndices(Max(Min(config.numDimensions, Columns), 0))

\* the same for the requests numDimensions >= 0
C27_NonNegativeRequests ==
    (call = "selectDiscriminativeDimensions" /\ pc = "returned" /\ OneExampleEach
        /\ config.numDimensions >= 0) =>
        /\ AllScoredOne
        /\ FirstIndices(Min(config.numDimensions, Columns))

\* for every request, every dimension is scored p-value 1 and statistic 0,
\* and the selection is what slice(0, numDimensions) takes of the indices
C27_SingleExamplesScoreOne ==
    (call = "selectDiscriminativeDimensions" /\ pc = "returned" /\ OneExampleEach) =>
        /\ AllScoredOne
        /\ FirstIndices(IF config.numDimensions < 0
                        THEN Max(Columns + config.numDimensions, 0)
                        ELSE Min(config.numDimensions, Columns))

\* C28: in the wizard, at most one processData call is in flight at any time
C28_OneRunInFlight ==
    call = "Home" => InFlight <= 1

\* as long as Try Again was not clicked, at most one call is in flight
C28_OneRunBeforeTryAgain ==
    (call = "Home" /\ ~home.retried) => InFlight <= 1

\* C29: after every click on Start Analysis the effect starts a processData
\* call, with no further click
C29_StartAnalysisStartsRun ==
    (call = "Home" /\ home.request = "pending") ~> (home.request = "served")

\* a click on Start Analysis is served when the click finds no processingError
C29_StartedWhenNoError ==
    (call = "Home" /\ home.request = "pending" /\ home.processingError = Null)
        ~> (home.request = "served")

\* C30: POST /api/embeddings answers with all embeddings or none: a response
\* with status 200 carries one embedding of 1536 values per description, in
\* the order of the descriptions; when a call of the service failed, or the
\* count or a length is not as expected, the response has another status and
\* carries an error and no embeddings; and after a failed call of the service
\* no further call is made
Answered == generation # NoGeneration /\ generation.body # Nothing

CompleteEmbeddings(body) ==
    /\ DOMAIN body = {"embeddings", "count", "dimensions", "model"}
    /\ body.embeddings.count = descriptionsLength
    /\ body.embeddings.inOrder
    /\ body.embeddings.ofLength

C30_AllOrNothing ==
    /\ Answered =>
          IF status = 200
          THEN /\ CompleteEmbeddings(generation.body)
               /\ generation.failedAt = 0
          ELSE /\ generation.body = [error |-> error]
               /\ status \in {400, 401, 429, 500}
    /\ (generation # NoGeneration /\ generation.failedAt # 0) =>
          /\ generation.calls = generation.failedAt
          /\ Answered
          /\ status \in {401, 429, 500}

\* the second call of the service has failed, after a first that returned
\* its embeddings
C30_Witness ==
    /\ Answered
    /\ generation.rows = MaxServiceRows
    /\ generation.failedAt = 2
    /\ status = 429
    /\ generation.body = [error |-> RateLimitError]

====
